---- MODULE Spec2Model ----
(***************************************************************************)
(* Sentiment pipeline: the Model Gateway (OllamaService), its sentiment    *)
(* cache, and the Batch Orchestrator (OptimizedSentimentService).          *)
(*                                                                         *)
(* Conventions                                                             *)
(*  - a Python str is a sequence of one-character strings; a value of any  *)
(*    other type is the record NotStr;                                     *)
(*  - a confidence is an integer number of hundredths (0.95 is 95);        *)
(*  - a (SentimentLabel, float) tuple is <<label, confidence>>;            *)
(*  - md5() and hash() are taken to be injective, so a cache key is the    *)
(*    record of the values that are hashed into it.                        *)
(***************************************************************************)
EXTENDS Integers, Sequences, FiniteSets, TLC

\* ---------------------------------------------------------------- bounds
MaxBatchLen == 2
MaxCalls == 2
MaxWords == 3
MaxChunkText == 130
MaxNormalized == 4
MaxCount == 3
MaxPieces == 3
MaxRequests == 3
SmallChunk == 60
SmallOverlap == 10
LargeOverlap == 52
SmallBatchSize == 1
SmallWorkers == 1

\* ------------------------------------------------------ program constants
max_cache_size == 1000
CtorBatchSize == 16
CtorMaxWorkers == 4
MinTextLen == 3
MaxTextLen == 10000
min_chunk_size == 50
BreakWindow == 50
default_chunk_size == 1000
default_overlap == 50
KeyPrefix == 100
DetectMinLen == 10

\* ------------------------------------------------------------ Python data
Str(s) == [t |-> "str", s |-> s]
NotStr == [t |-> "int", s |-> <<>>]
IsStr(x) == x.t = "str"

None == <<"None", 0>>
POSITIVE == "positive"
NEGATIVE == "negative"
NEUTRAL == "neutral"

Good == <<"g", "o", "o", "d">>
InputTexts == { Str(<<" ">> \o Good), NotStr }
Languages == {"en", "fr"}

\* --------------------------------------------------------- str operations
RECURSIVE Range(_)
Range(s) == IF s = <<>> THEN {} ELSE {Head(s)} \cup Range(Tail(s))

IsSpace(c) == c = " "

\* str.split(): the maximal runs of non-whitespace characters
RECURSIVE SplitFrom(_, _, _)
SplitFrom(s, cur, acc) ==
    IF s = <<>> THEN (IF cur = <<>> THEN acc ELSE Append(acc, cur))
    ELSE IF IsSpace(Head(s))
         THEN SplitFrom(Tail(s), <<>>, IF cur = <<>> THEN acc ELSE Append(acc, cur))
         ELSE SplitFrom(Tail(s), Append(cur, Head(s)), acc)
Split(s) == SplitFrom(s, <<>>, <<>>)

\* ' '.join(words)
RECURSIVE Join(_)
Join(ws) ==
    IF ws = <<>> THEN <<>>
    ELSE IF Len(ws) = 1 THEN ws[1]
    ELSE ws[1] \o <<" ">> \o Join(Tail(ws))

\* word in text (substring test)
Contains(s, w) ==
    \E i \in 1..(Len(s) - Len(w) + 1) : SubSeq(s, i, i + Len(w) - 1) = w

\* str.lower(), over the letters of the texts
LowerChar(c) == IF c = "G" THEN "g" ELSE IF c = "A" THEN "a" ELSE c
Lower(s) == [i \in 1..Len(s) |-> LowerChar(s[i])]

\* ---------------------------------------------------------- the normalizer
\* The four steps of the pipeline, over the characters of the texts: the
\* letters, the space, and ! , : ) of the punctuation. The zero-width
\* characters, quotes, dashes, apostrophes and the punctuation of the
\* languages that the first two steps rewrite are not among them.
_basic_text_cleaning(s) == Join(Split(s))
_apply_language_specific_optimization(s, language) == s

\* lines 229-248: an emoticon is set between spaces, a run of ! and ? is cut
\* to two, and a word of more than two letters, all upper case, is
\* capitalized and given a '!'
_apply_sentiment_preprocessing(s) ==
    LET first == {":", "-", "="}
        second == {")", "(", "[", "]", "D", "P", "p", "O", "o", "/", "\\", "|"}
        marks == {"!", "?"}
        upper == {"A", "G"}
        RECURSIVE Emoticons(_)
        Emoticons(t) ==
            IF t = <<>> THEN <<>>
            ELSE IF Len(t) > 1 /\ t[1] \in first /\ t[2] \in second
                 THEN <<" ", t[1], t[2], " ">> \o Emoticons(SubSeq(t, 3, Len(t)))
                 ELSE <<Head(t)>> \o Emoticons(Tail(t))
        RECURSIVE Repeated(_)
        Repeated(t) ==
            IF t = <<>> THEN <<>>
            ELSE LET run == CHOOSE r \in 0..Len(t) :
                                /\ \A n \in 1..r : t[n] \in marks
                                /\ r = Len(t) \/ t[r + 1] \notin marks
                 IN  IF run >= 2
                     THEN <<t[run], t[run]>> \o Repeated(SubSeq(t, run + 1, Len(t)))
                     ELSE <<Head(t)>> \o Repeated(Tail(t))
        words == Split(Repeated(Emoticons(s)))
        shout(word) == /\ Len(word) > 2
                       /\ \A n \in 1..Len(word) : word[n] \in upper
        capitalize(word) == <<Head(word)>> \o Lower(Tail(word))
    IN  Join([k \in 1..Len(words) |->
                IF shout(words[k]) THEN capitalize(words[k]) \o <<"!">> ELSE words[k]])

\* lines 252-259: no whitespace before a punctuation character, one space
\* after each, and single spaces between the words
_normalize_tokens(s) ==
    LET punctuation == {".", "!", "?", ",", ";", ":"}
        before == SelectSeq([n \in 1..Len(s) |-> n],
                      LAMBDA n : ~(/\ IsSpace(s[n])
                                   /\ \E q \in n + 1..Len(s) :
                                         /\ s[q] \in punctuation
                                         /\ \A r \in n..q - 1 : IsSpace(s[r])))
        removed == [k \in 1..Len(before) |-> s[before[k]]]
        RECURSIVE After(_)
        After(t) ==
            IF t = <<>> THEN <<>>
            ELSE IF Head(t) \in punctuation
                 THEN LET run == CHOOSE r \in 0..Len(t) - 1 :
                                     /\ \A n \in 2..r + 1 : IsSpace(t[n])
                                     /\ r = Len(t) - 1 \/ ~IsSpace(t[r + 2])
                      IN  <<Head(t), " ">> \o After(SubSeq(t, run + 2, Len(t)))
                 ELSE <<Head(t)>> \o After(Tail(t))
    IN  Join(Split(After(removed)))

_apply_tokenization_pipeline(s, language) ==
    _normalize_tokens(
        _apply_sentiment_preprocessing(
            _apply_language_specific_optimization(
                _basic_text_cleaning(s), language)))

\* optimize_text_for_analysis raises for a value that is not a str and for
\* a str with a lone surrogate (text.encode('utf-8') in _get_cache_key); for
\* any other str it is the memoised pipeline.
OptimizeRaises(text) ==
    \/ ~IsStr(text)
    \/ \E n \in 1..Len(text.s) : text.s[n] = "U+D800"
optimize_text_for_analysis(text, language) ==
    Str(_apply_tokenization_pipeline(text.s, language))

\* one worker of _process_batch_parallel: the result, or the original on error
OptimizeInBatch(text, language) ==
    IF OptimizeRaises(text) THEN text
    ELSE optimize_text_for_analysis(text, language)

\* ------------------------------------------------------ heuristic fallback
positive_words == { Good,
                    <<"g","r","e","a","t">>,
                    <<"e","x","c","e","l","l","e","n","t">>,
                    <<"a","m","a","z","i","n","g">>,
                    <<"l","o","v","e">>,
                    <<"p","e","r","f","e","c","t">>,
                    <<"w","o","n","d","e","r","f","u","l">>,
                    <<"f","a","n","t","a","s","t","i","c">> }
negative_words == { <<"b","a","d">>,
                    <<"t","e","r","r","i","b","l","e">>,
                    <<"a","w","f","u","l">>,
                    <<"h","a","t","e">>,
                    <<"h","o","r","r","i","b","l","e">>,
                    <<"w","o","r","s","t">>,
                    <<"d","i","s","a","p","p","o","i","n","t","i","n","g">> }

\* str.lower() over the model's characters

FallbackRaises(text) == ~IsStr(text)
_fallback_sentiment(text) ==
    LET text_lower == Lower(text.s)
        positive_count == Cardinality({w \in positive_words : Contains(text_lower, w)})
        negative_count == Cardinality({w \in negative_words : Contains(text_lower, w)})
    IN  IF positive_count > negative_count THEN <<POSITIVE, 70>>
        ELSE IF negative_count > positive_count THEN <<NEGATIVE, 70>>
        ELSE <<NEUTRAL, 60>>

\* ------------------------------------------------------- the sentiment cache
\* self.sentiment_cache is a dict, which keeps its keys in insertion order.
\* The entries of texts analysed before the behaviour starts are the keys
\* "old" lo..hi-1, the oldest of the dict, kept as a range; seq is the rest
\* of the dict, in insertion order, as [key, val] records.
GatewayKey(text) == [op |-> "sentiment", lang |-> "-", text |-> text]
OrchKey_NoLanguage(language, text) == [op |-> "sentiment", lang |-> "-", text |-> text]
OrchKey(language, text) == [op |-> "sentiment", lang |-> language, text |-> text]

EmptyCache == [lo |-> 0, hi |-> 0, seq |-> <<>>]
CacheLen(c) == (c.hi - c.lo) + Len(c.seq)
CacheHas(c, k) == \E n \in 1..Len(c.seq) : c.seq[n].key = k
CacheGet(c, k) == (CHOOSE e \in Range(c.seq) : e.key = k).val
\* cache_dict[key] = value: an existing key keeps its place
CachePut(c, k, v) ==
    IF CacheHas(c, k)
    THEN [c EXCEPT !.seq = [n \in 1..Len(c.seq) |->
                               IF c.seq[n].key = k THEN [key |-> k, val |-> v]
                               ELSE c.seq[n]]]
    ELSE [c EXCEPT !.seq = Append(c.seq, [key |-> k, val |-> v])]

Min(a, b) == IF a < b THEN a ELSE b
Max(a, b) == IF a > b THEN a ELSE b

NoSnap == [lo |-> 0, hi |-> 0, keys |-> <<>>]
\* list(cache_dict.keys())[:n]
OldestKeys(c, n) ==
    LET nold == Min(n, c.hi - c.lo)
        nseq == Min(n - nold, Len(c.seq))
    IN  [lo |-> c.lo, hi |-> c.lo + nold,
         keys |-> [m \in 1..nseq |-> c.seq[m].key]]

RemoveKey(seq, k) == SelectSeq(seq, LAMBDA e : e.key # k)

\* for key in oldest_keys: del cache_dict[key]
\* The result is the dict the loop leaves and whether a del raised KeyError.
RECURSIVE DelKeys(_, _)
DelKeys(c, keys) ==
    IF keys = <<>> THEN [cache |-> c, raised |-> FALSE]
    ELSE IF ~CacheHas(c, Head(keys)) THEN [cache |-> c, raised |-> TRUE]
    ELSE DelKeys([c EXCEPT !.seq = RemoveKey(c.seq, Head(keys))], Tail(keys))

DelOldest(c, snap) ==
    IF snap.lo < snap.hi /\ c.lo > snap.lo
    THEN [cache |-> c, raised |-> TRUE]
    ELSE DelKeys([c EXCEPT !.lo = Max(c.lo, snap.hi)], snap.keys)

remove_count == max_cache_size \div 10

\* ------------------------------------------------------- the remote model
\* What client.chat can do: raise, or return a response.  A response is
\* classified by what the parsing code makes of it.
Positive8 == <<"p","o","s","i","t","i","v","e">>
Negative8 == <<"n","e","g","a","t","i","v","e">>
Resp(kind, sentiment, confidence, content) ==
    [kind |-> kind, sentiment |-> sentiment, confidence |-> confidence, content |-> content]
Responses ==
    { Resp("json", "positive", 100, <<>>),      \* {"sentiment":"positive","confidence":1.0}
      Resp("json", "mixed", -500, <<>>),        \* {"sentiment":"mixed","confidence":-5}
      Resp("text", "", 0, Negative8),           \* content that is not JSON
      Resp("badjson", "", 0, <<>>),             \* JSON that is not an object
      Resp("nomsg", "", 0, <<>>) }              \* a response without 'message'
ChatErrors == {"unauthorized", "timeout"}

\* max(0.5, min(0.95, confidence))
Clamp_NoUpper(confidence) == Max(50, confidence)
Clamp(confidence) == Max(50, Min(95, confidence))

\* lines 166-182: the tuple built from a parsed JSON object
ParseJson(r) ==
    LET sentiment == IF r.sentiment = "positive" THEN POSITIVE
                     ELSE IF r.sentiment = "negative" THEN NEGATIVE
                     ELSE NEUTRAL
    IN  <<sentiment, Clamp(r.confidence)>>

\* lines 191-197: the tuple built from content that is not JSON
ParseText(r) ==
    LET content_lower == Lower(r.content)
    IN  IF Contains(content_lower, Positive8) THEN <<POSITIVE, 75>>
        ELSE IF Contains(content_lower, Negative8) THEN <<NEGATIVE, 75>>
        ELSE <<NEUTRAL, 65>>

\* ------------------------------------------------------------------ state
VARIABLES
    sentiment_cache,   \* OllamaService.sentiment_cache
    client,            \* OllamaService.client is set (TRUE) or None (FALSE)
    batch_size,        \* OptimizedSentimentService.batch_size
    max_workers,       \* OptimizedSentimentService.max_workers
    pc,                \* where the request thread is
    op,                \* the operation the request thread runs or ran last
    texts,             \* the texts of the request
    languages,         \* the language of each text (after defaulting)
    optimized_texts,   \* the normalised texts
    uncached_indices,  \* the positions the partition found uncached (1-based)
    results,           \* batch_analyze_optimized: results; the value returned
    un_results,        \* _process_uncached_batch: results
    batch_results,     \* _process_uncached_batch: batch_results of the sub-batch
    i,                 \* _process_uncached_batch: offset of the sub-batch
    tasks,             \* the analyze_sentiment calls submitted or running
    own,               \* per position, what its own lookup or worker produced
    prev,              \* the request completed before this one
    calls,             \* number of single-text requests started
    args,              \* the arguments of the function applied on its own
    ret,               \* what that function returned or raised
    translation_cache,          \* OllamaService.translation_cache
    service_translation_cache,  \* TranslationService.translation_cache
    translation_chats,          \* number of chat requests sent for translations
    normalizer_cache,  \* TokenizationService.cache
    futures,           \* _process_batch_parallel: the calls given to its pool
    results_store,     \* api_routes.results_store
    handlers           \* the requests to the results routes being handled

vars == <<sentiment_cache, client, batch_size, max_workers, pc, op, texts, languages,
          optimized_texts, uncached_indices, results, un_results, batch_results,
          i, tasks, own, prev, calls, args, ret,
          translation_cache, service_translation_cache, translation_chats,
          normalizer_cache, futures, results_store, handlers>>

config == <<batch_size, max_workers>>
call == <<args, ret>>
translation == <<translation_cache, service_translation_cache, translation_chats>>
request == <<op, texts, languages, optimized_texts, uncached_indices, results,
             un_results, batch_results, i, own, prev>>
normalizer == <<normalizer_cache, futures>>
jobs == <<results_store, handlers>>

\* The states the service can be in when the request arrives: right after
\* construction, after analyze_sentiment has analysed Good with a model
\* response, or after analyze_sentiment_optimized has done so in English;
\* and, when the cache is full, max_cache_size - Len(seq) other texts
\* before that, which fill it to its bound.
WarmSeqs ==
    { <<>>,
      << [key |-> GatewayKey(Str(Good)), val |-> <<NEGATIVE, 75>>] >>,
      << [key |-> GatewayKey(Str(Good)), val |-> <<NEGATIVE, 75>>],
         [key |-> OrchKey("en", Str(Good)), val |-> <<NEGATIVE, 75>>] >> }
BelowBound == { [lo |-> 0, hi |-> 0, seq |-> w] : w \in WarmSeqs }
AtBound == { [lo |-> 0, hi |-> max_cache_size - Len(w), seq |-> w] : w \in WarmSeqs }

NoResult == [st |-> "none", val |-> None]
Ok(v) == [st |-> "ok", val |-> v]
Exc == [st |-> "exc", val |-> None]

\* one analyze_sentiment call: its position in the code, its locals, the
\* chat requests it has sent and, while it is in the retry, the client
\* initialisations it made and the error the first request raised
NewTask(text, at) ==
    [pc |-> at, text |-> text, pending |-> None, snap |-> NoSnap,
     chats |-> 0, reinits |-> 0, err |-> "", result |-> NoResult, collected |-> FALSE]

NoPrev == [op |-> "none", text |-> NotStr, ok |-> FALSE, out |-> None]

\* no request has arrived yet
NoRequest ==
    /\ pc = "idle"
    /\ op = "none"
    /\ texts = <<>>
    /\ languages = <<>>
    /\ optimized_texts = <<>>
    /\ uncached_indices = <<>>
    /\ results = <<>>
    /\ un_results = <<>>
    /\ batch_results = <<>>
    /\ i = 0
    /\ tasks = <<>>
    /\ own = <<>>
    /\ prev = NoPrev
    /\ calls = 0
    /\ translation_cache = EmptyCache
    /\ service_translation_cache = EmptyCache
    /\ translation_chats = 0
    /\ futures = <<>>
    /\ results_store = {}
    /\ handlers = <<>>

\* no function is applied on its own
NoCall ==
    /\ args = <<"none">>
    /\ ret = NoResult

\* batch_size and max_workers as the constructor sets them, or one of the
\* two set smaller by the owner of the service
SmallConfigs ==
    { <<SmallBatchSize, CtorMaxWorkers>>,
      <<CtorBatchSize, SmallWorkers>> }
Configs == SmallConfigs \cup { <<CtorBatchSize, CtorMaxWorkers>> }

\* The service when the request arrives: any settings with a cache below
\* its bound, or small settings with a cache at its bound.  The
\* constructor's settings with a cache at its bound are InitAtBound.
ServiceStates ==
    { [cache |-> c, cfg |-> g] : c \in BelowBound, g \in Configs }
        \cup { [cache |-> c, cfg |-> g] : c \in AtBound, g \in SmallConfigs }

Init ==
    /\ \E sv \in ServiceStates :
          /\ sentiment_cache = sv.cache
          /\ batch_size = sv.cfg[1]
          /\ max_workers = sv.cfg[2]
    /\ client \in BOOLEAN
    /\ NoRequest
    /\ normalizer_cache = EmptyCache
    /\ NoCall

InitAtBound ==
    /\ sentiment_cache \in AtBound
    /\ \E cfg \in Configs : batch_size = cfg[1] /\ max_workers = cfg[2]
    /\ client \in BOOLEAN
    /\ NoRequest
    /\ normalizer_cache = EmptyCache
    /\ NoCall

\* ------------------------------------------- OllamaService.analyze_sentiment
\* the call returns or raises; its locals are gone
Return(t, v) ==
    [t EXCEPT !.pc = "done", !.result = Ok(v), !.pending = None, !.snap = NoSnap,
              !.reinits = 0, !.err = ""]
Raise(t) ==
    [t EXCEPT !.pc = "done", !.result = Exc, !.pending = None, !.snap = NoSnap,
              !.reinits = 0, !.err = ""]
\* the outer except clause: return self._fallback_sentiment(text)
ReturnFallback(t) ==
    IF FallbackRaises(t.text) THEN Raise(t) ELSE Return(t, _fallback_sentiment(t.text))

Running == pc \in {"gw", "opt", "batch", "bindiv"}

\* lines 108-115: the cache test and the client test
GwCheck(k) ==
    /\ Running /\ tasks[k].pc = "check"
    /\ LET t == tasks[k] IN
       tasks' = [tasks EXCEPT ![k] =
           IF ~IsStr(t.text) THEN ReturnFallback(t)
           ELSE IF CacheHas(sentiment_cache, GatewayKey(t.text)) THEN [t EXCEPT !.pc = "read"]
           ELSE IF ~client THEN ReturnFallback(t)
           ELSE [t EXCEPT !.pc = "chat"]]
    /\ UNCHANGED <<sentiment_cache, client, config, normalizer, jobs, call, translation, pc, request, calls>>

\* line 111: return self.sentiment_cache[cache_key]
GwRead(k) ==
    /\ Running /\ tasks[k].pc = "read"
    /\ LET t == tasks[k] IN
       tasks' = [tasks EXCEPT ![k] =
           IF CacheHas(sentiment_cache, GatewayKey(t.text))
           THEN Return(t, CacheGet(sentiment_cache, GatewayKey(t.text)))
           ELSE ReturnFallback(t)]
    /\ UNCHANGED <<sentiment_cache, client, config, normalizer, jobs, call, translation, pc, request, calls>>

\* lines 161-208 up to the cache write: what the response is turned into
Parsed(t, result) ==
    [t EXCEPT !.pc = "mcheck", !.pending = result, !.reinits = 0, !.err = ""]
AfterResponse(t, r) ==
    IF r.kind = "json" THEN Parsed(t, ParseJson(r))
    ELSE IF r.kind = "text" THEN Parsed(t, ParseText(r))
    ELSE IF r.kind = "nomsg" THEN Parsed(t, _fallback_sentiment(t.text))
    ELSE ReturnFallback(t)

\* line 145: "unauthorized" in str(chat_error).lower() or "401" in str(chat_error)
IsAuthError_Any(e) == TRUE
IsAuthError(e) == e = "unauthorized"

\* lines 155-156: except Exception: return self._fallback_sentiment(text)
OnRetryError_Again(c) == IF c.chats < 3 THEN [c EXCEPT !.pc = "retry"] ELSE ReturnFallback(c)
OnRetryError(c) == ReturnFallback(c)

\* lines 126-158: the first chat request.  With self.client None the call
\* raises AttributeError before any request is sent.
GwChat(k) ==
    /\ Running /\ tasks[k].pc = "chat"
    /\ LET t == tasks[k] IN
       IF ~client
       THEN /\ tasks' = [tasks EXCEPT ![k] = ReturnFallback(t)]
            /\ UNCHANGED client
       ELSE LET c == [t EXCEPT !.chats = @ + 1] IN
            \/ \E r \in Responses :
                 /\ tasks' = [tasks EXCEPT ![k] = AfterResponse(c, r)]
                 /\ UNCHANGED client
            \/ \E e \in ChatErrors :
                 IF IsAuthError(e)
                 THEN \E ok \in BOOLEAN :      \* _initialize_client()
                        /\ client' = ok
                        /\ tasks' = [tasks EXCEPT ![k] =
                                        [c EXCEPT !.pc = "retry", !.reinits = @ + 1,
                                                  !.err = e]]
                 ELSE /\ tasks' = [tasks EXCEPT ![k] = ReturnFallback(c)]
                      /\ UNCHANGED client
    /\ UNCHANGED <<sentiment_cache, config, normalizer, jobs, call, translation, pc, request, calls>>

\* lines 149-156: the retry after the client was initialised again; any
\* exception of the retry returns the fallback
GwRetry(k) ==
    /\ Running /\ tasks[k].pc = "retry"
    /\ LET t == tasks[k] IN
       IF ~client
       THEN tasks' = [tasks EXCEPT ![k] = ReturnFallback(t)]
       ELSE LET c == [t EXCEPT !.chats = @ + 1] IN
            \/ \E r \in Responses : tasks' = [tasks EXCEPT ![k] = AfterResponse(c, r)]
            \/ \E e \in ChatErrors : tasks' = [tasks EXCEPT ![k] = OnRetryError(c)]
    /\ UNCHANGED <<sentiment_cache, client, config, normalizer, jobs, call, translation, pc, request, calls>>

\* _manage_cache_size, line 45: the size test
GwManageCheck(k) ==
    /\ Running /\ tasks[k].pc = "mcheck"
    /\ tasks' = [tasks EXCEPT ![k].pc =
                    IF CacheLen(sentiment_cache) >= max_cache_size THEN "msnap" ELSE "insert"]
    /\ UNCHANGED <<sentiment_cache, client, config, normalizer, jobs, call, translation, pc, request, calls>>

\* _manage_cache_size, lines 47-48: the keys to remove
GwManageSnap(k) ==
    /\ Running /\ tasks[k].pc = "msnap"
    /\ tasks' = [tasks EXCEPT ![k].pc = "evict",
                              ![k].snap = OldestKeys(sentiment_cache, remove_count)]
    /\ UNCHANGED <<sentiment_cache, client, config, normalizer, jobs, call, translation, pc, request, calls>>

\* _manage_cache_size, lines 49-50: the removal; a KeyError reaches the
\* outer except clause of analyze_sentiment
GwManageEvict(k) ==
    /\ Running /\ tasks[k].pc = "evict"
    /\ LET t == tasks[k]
           d == DelOldest(sentiment_cache, t.snap) IN
       /\ sentiment_cache' = d.cache
       /\ tasks' = [tasks EXCEPT ![k] =
                       IF d.raised THEN ReturnFallback(t) ELSE [t EXCEPT !.pc = "insert"]]
    /\ UNCHANGED <<client, config, normalizer, jobs, call, translation, pc, request, calls>>

\* lines 184, 201, 207: self.sentiment_cache[cache_key] = result; return result
GwInsert(k) ==
    /\ Running /\ tasks[k].pc = "insert"
    /\ LET t == tasks[k] IN
       /\ sentiment_cache' = CachePut(sentiment_cache, GatewayKey(t.text), t.pending)
       /\ tasks' = [tasks EXCEPT ![k] = Return(t, t.pending)]
    /\ UNCHANGED <<client, config, normalizer, jobs, call, translation, pc, request, calls>>

GatewayStep(k) ==
    \/ GwCheck(k) \/ GwRead(k) \/ GwChat(k) \/ GwRetry(k)
    \/ GwManageCheck(k) \/ GwManageSnap(k) \/ GwManageEvict(k) \/ GwInsert(k)

\* ------------------------------------------------------- single-text requests
Idle == pc \in {"idle", "returned", "raised"}

\* what is remembered of the request that has just completed
Completed ==
    IF op \in {"gateway", "optimized"}
    THEN [op |-> op, text |-> texts[1], ok |-> pc = "returned",
          out |-> IF pc = "returned" THEN results[1] ELSE None]
    ELSE NoPrev

\* a caller of OllamaService.analyze_sentiment (SentimentService, benchmark)
StartGateway(text) ==
    /\ Idle /\ calls < MaxCalls
    /\ calls' = calls + 1
    /\ prev' = Completed
    /\ pc' = "gw"
    /\ op' = "gateway"
    /\ texts' = <<text>>
    /\ languages' = <<"-">>
    /\ optimized_texts' = <<>>
    /\ uncached_indices' = <<>>
    /\ results' = <<>>
    /\ own' = <<>>
    /\ tasks' = <<NewTask(text, "check")>>
    /\ UNCHANGED <<sentiment_cache, client, config, normalizer, jobs, call, translation, un_results, batch_results, i>>

FinishGateway ==
    /\ pc = "gw" /\ tasks[1].pc = "done"
    /\ LET r == tasks[1].result IN
       IF r.st = "ok"
       THEN /\ pc' = "returned"
            /\ results' = <<r.val>>
       ELSE /\ pc' = "raised"
            /\ UNCHANGED results
    /\ UNCHANGED <<sentiment_cache, client, config, normalizer, jobs, call, translation, op, texts, languages, optimized_texts,
                   uncached_indices, un_results, batch_results, i, tasks, own, prev, calls>>

\* analyze_sentiment_optimized, lines 120-134
StartOptimized(text, language) ==
    /\ Idle /\ calls < MaxCalls
    /\ calls' = calls + 1
    /\ prev' = Completed
    /\ op' = "optimized"
    /\ texts' = <<text>>
    /\ languages' = <<language>>
    /\ uncached_indices' = <<>>
    /\ own' = <<>>
    /\ IF OptimizeRaises(text)
       THEN /\ pc' = "raised"
            /\ optimized_texts' = <<>>
            /\ results' = <<>>
            /\ tasks' = <<>>
       ELSE LET optimized_text == optimize_text_for_analysis(text, language)
                cache_key == OrchKey(language, optimized_text) IN
            /\ optimized_texts' = <<optimized_text>>
            /\ IF CacheHas(sentiment_cache, cache_key)
               THEN /\ pc' = "returned"
                    /\ results' = <<CacheGet(sentiment_cache, cache_key)>>
                    /\ tasks' = <<>>
               ELSE /\ pc' = "opt"
                    /\ results' = <<>>
                    /\ tasks' = <<NewTask(optimized_text, "check")>>
    /\ UNCHANGED <<sentiment_cache, client, config, normalizer, jobs, call, translation, un_results, batch_results, i>>

\* analyze_sentiment_optimized, lines 134-146
FinishOptimized ==
    /\ pc = "opt" /\ tasks[1].pc = "done"
    /\ LET r == tasks[1].result IN
       IF r.st = "ok"
       THEN /\ sentiment_cache' = CachePut(sentiment_cache,
                                           OrchKey(languages[1], optimized_texts[1]), r.val)
            /\ pc' = "returned"
            /\ results' = <<r.val>>
       ELSE /\ pc' = "raised"
            /\ UNCHANGED <<sentiment_cache, results>>
    /\ UNCHANGED <<client, config, normalizer, jobs, call, translation, op, texts, languages, optimized_texts,
                   uncached_indices, un_results, batch_results, i, tasks, own, prev, calls>>

\* ------------------------------------------------- batch_analyze_optimized
Batches == UNION { [1..n -> InputTexts] : n \in 0..MaxBatchLen }

\* the members of the sub-batch at offset i: texts[i:i + batch_size]
BatchSizeOf(n) == Min(batch_size, n)
SubLo == i + 1
SubHi == Min(i + BatchSizeOf(Len(tasks)), Len(tasks))
SubBatch == SubLo..SubHi

\* executor.submit for every member of the sub-batch starting after offset o
Submit(ts, o) ==
    [k \in 1..Len(ts) |->
        IF k > o /\ k <= Min(o + BatchSizeOf(Len(ts)), Len(ts))
        THEN [ts[k] EXCEPT !.pc = "queued"] ELSE ts[k]]

\* lines 159-196: normalise, partition, serve the cached positions, and
\* submit the first sub-batch; languages None or [] is ['en'] * len(texts).
\* Both zip(texts, languages) stop at the shorter list: a text without a
\* language is not normalised (its slot of _process_batch_parallel stays
\* None), is neither cached nor uncached, and its result stays None.
\* lines 202-207 when nothing is uncached: the ZeroDivisionError of
\* processing_time/len(texts) for no texts, or the return.
StartBatchLanguages(ts, given) ==
    /\ pc = "idle"
    /\ op' = "batch"
    /\ LET n == Len(ts)
           ls == IF given = <<>> THEN [m \in 1..n |-> "en"] ELSE given
           paired == 1..Min(n, Len(ls))
           opt == [m \in 1..n |-> IF m \in paired THEN OptimizeInBatch(ts[m], ls[m])
                                  ELSE [t |-> "None", s |-> <<>>]]
           hit == [m \in 1..n |-> /\ m \in paired
                                  /\ CacheHas(sentiment_cache, OrchKey(ls[m], opt[m]))]
           unc == SelectSeq([m \in 1..n |-> m], LAMBDA m : m \in paired /\ ~hit[m])
           res == [m \in 1..n |-> IF hit[m]
                                  THEN CacheGet(sentiment_cache, OrchKey(ls[m], opt[m]))
                                  ELSE None]
       IN  /\ texts' = ts
           /\ languages' = ls
           /\ optimized_texts' = opt
           /\ uncached_indices' = unc
           /\ results' = res
           /\ own' = res
           /\ un_results' = [k \in 1..Len(unc) |-> None]
           /\ i' = 0
           /\ tasks' = Submit([k \in 1..Len(unc) |-> NewTask(opt[unc[k]], "unsubmitted")], 0)
           /\ batch_results' = [j \in 1..Min(batch_size, Len(unc)) |-> None]
           /\ pc' = IF unc # <<>> THEN "batch" ELSE IF n = 0 THEN "raised" ELSE "returned"
    /\ UNCHANGED <<sentiment_cache, client, config, normalizer, jobs, call, translation, prev, calls>>

\* batch_analyze_optimized(texts), as analyze_batch and batch_analyze call it
StartBatch(ts) == StartBatchLanguages(ts, <<>>)

\* line 317: ThreadPoolExecutor(max_workers=min(self.max_workers, len(batch_texts)))
PoolThreads_Unbounded(n) == n
PoolThreads(n) == Min(max_workers, n)

\* line 325: local_index = future_to_index[future]
LocalIndex_Arrival(k) == 1 + Cardinality({m \in SubBatch : tasks[m].collected})
LocalIndex(k) == k - i

\* lines 335-337: batch_results[local_index] = (SentimentLabel.NEUTRAL, 0.0)
OnWorkerError_All(br, local_index) == [j \in 1..Len(br) |-> <<NEUTRAL, 0>>]
OnWorkerError(br, local_index) == [br EXCEPT ![local_index] = <<NEUTRAL, 0>>]

InFlight == {k \in 1..Len(tasks) : tasks[k].pc \notin {"unsubmitted", "queued", "done"}}

\* a pool thread takes the next queued call: the pool has
\* min(max_workers, len(batch_texts)) threads and a FIFO queue
StartTask(k) ==
    /\ pc = "batch" /\ k \in SubBatch
    /\ tasks[k].pc = "queued"
    /\ \A m \in SubBatch : m < k => tasks[m].pc # "queued"
    /\ Cardinality(InFlight) < PoolThreads(SubHi - SubLo + 1)
    /\ tasks' = [tasks EXCEPT ![k].pc = "check"]
    /\ UNCHANGED <<sentiment_cache, client, config, normalizer, jobs, call, translation, pc, request, calls>>

\* lines 324-337: the body of the as_completed loop for one finished future
Collect(k) ==
    /\ pc = "batch" /\ k \in SubBatch
    /\ tasks[k].pc = "done" /\ ~tasks[k].collected
    /\ LET local_index == LocalIndex(k)
           r == tasks[k].result
       IN  /\ batch_results' = IF r.st = "ok"
                               THEN [batch_results EXCEPT ![local_index] = r.val]
                               ELSE OnWorkerError(batch_results, local_index)
           /\ own' = [own EXCEPT ![uncached_indices[k]] =
                                    IF r.st = "ok" THEN r.val ELSE <<NEUTRAL, 0>>]
           /\ sentiment_cache' =
                 IF r.st = "ok"
                 THEN CachePut(sentiment_cache,
                               OrchKey(languages[uncached_indices[k]],
                                       optimized_texts[uncached_indices[k]]), r.val)
                 ELSE sentiment_cache
    /\ tasks' = [tasks EXCEPT ![k].collected = TRUE]
    /\ UNCHANGED <<client, config, normalizer, jobs, call, translation, pc, op, texts, languages, optimized_texts,
                   uncached_indices, results, un_results, i, prev, calls>>

\* lines 339-343 and 198-207: the sub-batch has drained; store its results,
\* then submit the next sub-batch or fill in the results and return
EndSubBatch ==
    /\ pc = "batch"
    /\ \A k \in SubBatch : tasks[k].collected
    /\ LET stored == [k \in 1..Len(un_results) |->
                         IF k \in SubBatch THEN batch_results[k - i] ELSE un_results[k]]
           next == i + BatchSizeOf(Len(tasks))
       IN  /\ un_results' = stored
           /\ IF next < Len(tasks)
              THEN /\ i' = next
                   /\ tasks' = Submit(tasks, next)
                   /\ batch_results' =
                         [j \in 1..Min(BatchSizeOf(Len(tasks)), Len(tasks) - next) |-> None]
                   /\ UNCHANGED <<pc, results>>
              ELSE /\ results' =
                         [m \in 1..Len(results) |->
                             IF \E k \in 1..Len(uncached_indices) : uncached_indices[k] = m
                             THEN stored[CHOOSE k \in 1..Len(uncached_indices) :
                                            uncached_indices[k] = m]
                             ELSE results[m]]
                   /\ pc' = "returned"
                   /\ UNCHANGED <<i, tasks, batch_results>>
    /\ UNCHANGED <<sentiment_cache, client, config, normalizer, jobs, call, translation, op, texts, languages, optimized_texts,
                   uncached_indices, own, prev, calls>>

\* ------------------------------------ OllamaService.batch_analyze_sentiment
\* the texts SentimentService.batch_analyze and parallel_analyze pass on
GatewayTexts == InputTexts \cup {Str(Good)}
GatewayBatches == UNION { [1..n -> GatewayTexts] : n \in 0..MaxBatchLen }

\* the elements of the JSON array of a batch response
BatchItems ==
    { [sentiment |-> "positive", confidence |-> 100],
      [sentiment |-> "mixed", confidence |-> -500] }

\* _batch_sentiment_api_call, lines 673-692: one tuple per element, padded
\* with (NEUTRAL, 0.6) and cut to len(texts)
BatchParsed(results_json, n) ==
    [j \in 1..n |->
        IF j <= Len(results_json)
        THEN LET sentiment_str == results_json[j].sentiment
                 sentiment == IF sentiment_str = "positive" THEN POSITIVE
                              ELSE IF sentiment_str = "negative" THEN NEGATIVE
                              ELSE NEUTRAL
             IN  <<sentiment, Max(50, Min(95, results_json[j].confidence))>>
        ELSE <<NEUTRAL, 60>>]

\* _manage_cache_size run by one thread with no other thread in the cache
_manage_cache_size(cache_dict) ==
    IF CacheLen(cache_dict) >= max_cache_size
    THEN DelOldest(cache_dict, OldestKeys(cache_dict, remove_count)).cache
    ELSE cache_dict

\* lines 596-614 and 625-633: the partition; _get_cache_key raises for a
\* text that is not a str; without uncached texts or without a client the
\* uncached positions get the heuristic fallback and the call returns
StartGatewayBatch(ts) ==
    /\ pc = "idle"
    /\ op' = "gwbatch"
    /\ texts' = ts
    /\ languages' = [m \in 1..Len(ts) |-> "-"]
    /\ optimized_texts' = <<>>
    /\ un_results' = <<>>
    /\ batch_results' = <<>>
    /\ i' = 0
    /\ tasks' = <<>>
    /\ IF \E m \in 1..Len(ts) : ~IsStr(ts[m])
       THEN /\ pc' = "raised"
            /\ uncached_indices' = <<>>
            /\ results' = <<>>
            /\ own' = <<>>
       ELSE LET n == Len(ts)
                hit == [m \in 1..n |-> CacheHas(sentiment_cache, GatewayKey(ts[m]))]
                unc == SelectSeq([m \in 1..n |-> m], LAMBDA m : ~hit[m])
                cached == [m \in 1..n |-> IF hit[m]
                                          THEN CacheGet(sentiment_cache, GatewayKey(ts[m]))
                                          ELSE None]
            IN  /\ uncached_indices' = unc
                /\ own' = cached
                /\ IF unc # <<>> /\ client
                   THEN /\ pc' = "bcall"
                        /\ results' = cached
                   ELSE /\ pc' = "returned"
                        /\ results' = [m \in 1..n |-> IF hit[m] THEN cached[m]
                                                       ELSE _fallback_sentiment(ts[m])]
    /\ UNCHANGED <<sentiment_cache, client, config, normalizer, jobs, call, translation, prev, calls>>

\* lines 701-703: for text in texts, one analyze_sentiment call each
IndividualTasks_AllButLast(uncached_texts) ==
    [k \in 1..Len(uncached_texts) - 1 |-> NewTask(uncached_texts[k], "unsubmitted")]
IndividualTasks(uncached_texts) ==
    [k \in 1..Len(uncached_texts) |-> NewTask(uncached_texts[k], "unsubmitted")]

\* _batch_sentiment_api_call, lines 645-709: the batch chat request returns
\* an array that is parsed, or the texts are analysed one after the other
BatchApiCall ==
    /\ pc = "bcall"
    /\ LET n == Len(uncached_indices) IN
       \/ \E len \in 0..n + 1 : \E results_json \in [1..len -> BatchItems] :
             /\ batch_results' = BatchParsed(results_json, n)
             /\ pc' = "bstore"
             /\ UNCHANGED tasks
       \/ /\ tasks' = IndividualTasks([k \in 1..n |-> texts[uncached_indices[k]]])
          /\ pc' = "bindiv"
          /\ UNCHANGED batch_results
    /\ UNCHANGED <<sentiment_cache, client, config, normalizer, jobs, call, translation, op, texts, languages, optimized_texts,
                   uncached_indices, results, un_results, i, own, prev, calls>>

\* lines 702-705: result = self.analyze_sentiment(text), in input order
IndividualCall(k) ==
    /\ pc = "bindiv"
    /\ tasks[k].pc = "unsubmitted"
    /\ \A m \in 1..k - 1 : tasks[m].pc = "done"
    /\ tasks' = [tasks EXCEPT ![k].pc = "check"]
    /\ UNCHANGED <<sentiment_cache, client, config, normalizer, jobs, call, translation, pc, request, calls>>

\* lines 705-709: the results of the individual calls, (NEUTRAL, 0.6) for
\* a call that raised
IndividualDone ==
    /\ pc = "bindiv"
    /\ \A k \in 1..Len(tasks) : tasks[k].pc = "done"
    /\ batch_results' = [k \in 1..Len(tasks) |->
                            IF tasks[k].result.st = "ok" THEN tasks[k].result.val
                            ELSE <<NEUTRAL, 60>>]
    /\ pc' = "bstore"
    /\ UNCHANGED <<sentiment_cache, client, config, normalizer, jobs, call, translation, op, texts, languages, optimized_texts,
                   uncached_indices, results, un_results, i, tasks, own, prev, calls>>

\* line 622: self._manage_cache_size(self.sentiment_cache) for member i + 1
BatchManage ==
    /\ pc = "bstore"
    /\ sentiment_cache' = _manage_cache_size(sentiment_cache)
    /\ pc' = "binsert"
    /\ UNCHANGED <<client, config, normalizer, jobs, call, translation, request, tasks, calls>>

\* lines 623-624 and 631-633: the cache write of member i + 1, and after
\* the last member the results in input order
BatchInsert ==
    /\ pc = "binsert"
    /\ LET j == i + 1
           cache_key == GatewayKey(texts[uncached_indices[j]])
       IN  /\ sentiment_cache' = CachePut(sentiment_cache, cache_key, batch_results[j])
           /\ i' = j
           /\ IF j < Len(uncached_indices)
              THEN /\ pc' = "bstore"
                   /\ UNCHANGED results
              ELSE /\ pc' = "returned"
                   /\ results' =
                         [m \in 1..Len(texts) |->
                             IF \E k \in 1..Len(uncached_indices) : uncached_indices[k] = m
                             THEN batch_results[CHOOSE k \in 1..Len(uncached_indices) :
                                                   uncached_indices[k] = m]
                             ELSE own[m]]
    /\ UNCHANGED <<client, config, normalizer, jobs, call, translation, op, texts, languages, optimized_texts, uncached_indices,
                   un_results, batch_results, tasks, own, prev, calls>>

\* ---------------------------------------------------------- specifications
Workers ==
    \/ \E k \in 1..Len(tasks) : StartTask(k)
    \/ \E k \in 1..Len(tasks) : GatewayStep(k)
    \/ \E k \in 1..Len(tasks) : Collect(k)

\* one batch request arriving at a service in any of its initial states
Next ==
    \/ \E ts \in Batches : StartBatch(ts)
    \/ Workers
    \/ EndSubBatch

Spec == Init /\ [][Next]_vars

\* the same request when every call a pool thread runs goes on until it
\* returns or raises (the remote requests come back), the pool threads take
\* the queued calls and the calling thread goes on through as_completed
SpecFair == Init /\ [][Next]_vars /\ WF_vars(Workers \/ EndSubBatch)

\* the same request with a list of languages of any length
NextLanguages ==
    \/ \E ts \in Batches :
          \E ls \in UNION { [1..n -> Languages] : n \in 0..MaxBatchLen + 1 } :
             StartBatchLanguages(ts, ls)
    \/ Workers
    \/ EndSubBatch

SpecLanguages == Init /\ [][NextLanguages]_vars

\* the same request arriving at a service whose cache is at its bound
SpecAtBound == InitAtBound /\ [][Next]_vars

\* a sequence of single-text requests
NextCalls ==
    \/ \E text \in InputTexts : StartGateway(text)
    \/ FinishGateway
    \/ \E text \in InputTexts, language \in Languages : StartOptimized(text, language)
    \/ FinishOptimized
    \/ \E k \in 1..Len(tasks) : GatewayStep(k)

SpecCalls == Init /\ [][NextCalls]_vars

\* one gateway batch request; the cache may also be one entry short of its
\* bound when the request arrives
NearlyFullCaches ==
    { [lo |-> 0, hi |-> max_cache_size - 1 - Len(w), seq |-> w] : w \in WarmSeqs }

InitGatewayBatch ==
    /\ sentiment_cache \in BelowBound \cup AtBound \cup NearlyFullCaches
    /\ client \in BOOLEAN
    /\ batch_size = CtorBatchSize
    /\ max_workers = CtorMaxWorkers
    /\ NoRequest
    /\ normalizer_cache = EmptyCache
    /\ NoCall

NextGatewayBatch ==
    \/ \E ts \in GatewayBatches : StartGatewayBatch(ts)
    \/ BatchApiCall
    \/ \E k \in 1..Len(tasks) : IndividualCall(k)
    \/ \E k \in 1..Len(tasks) : GatewayStep(k)
    \/ IndividualDone
    \/ BatchManage
    \/ BatchInsert

SpecGatewayBatch == InitGatewayBatch /\ [][NextGatewayBatch]_vars

\* ------------------------------------------- functions applied on their own
\* the service at rest while one function is applied to arguments
Quiet ==
    /\ sentiment_cache = EmptyCache
    /\ client = FALSE
    /\ batch_size = CtorBatchSize
    /\ max_workers = CtorMaxWorkers
    /\ NoRequest
    /\ normalizer_cache = EmptyCache

\* the texts of up to n words of a vocabulary, separated by single spaces
RECURSIVE TextsOf(_, _)
TextsOf(words, n) ==
    IF n = 0 THEN { <<>> }
    ELSE LET shorter == TextsOf(words, n - 1)
         IN  shorter \cup { IF t = <<>> THEN w ELSE t \o <<" ">> \o w :
                               t \in shorter, w \in words }

\* OllamaService._fallback_sentiment applied to a str
FallbackCalls ==
    { <<"_fallback_sentiment", Str(t)>> :
        t \in TextsOf({ Good, <<"G","o","o","d">>, <<"b","a","d">>, <<"l","o","v","e">> },
                      MaxWords) }

CallFallback ==
    /\ args[1] = "_fallback_sentiment"
    /\ ret.st = "none"
    /\ ret' = IF FallbackRaises(args[2]) THEN Exc ELSE Ok(_fallback_sentiment(args[2]))
    /\ UNCHANGED <<sentiment_cache, client, config, normalizer, jobs, translation, pc, request, tasks, calls, args>>

\* POST /api/analyze (api_routes.analyze_text): the request is JSON or not,
\* its body parses or not, has a "text" or not, and has a "translate" field
\* or not; the text is a string of some length, a string with a lone
\* surrogate (json.loads accepts "\ud800"), a JSON number or a JSON array
AnalyzeCalls ==
    { <<"analyze_text", [is_json |-> j, valid |-> v, has_text |-> h, text |-> t,
                         translate |-> tr]>> :
        j \in BOOLEAN, v \in BOOLEAN, h \in BOOLEAN,
        t \in { Str([k \in 1..n |-> "A"]) :
                  n \in {0, MinTextLen - 1, MinTextLen, MaxTextLen, MaxTextLen + 1} }
              \cup { Str([k \in 1..n |-> IF k = 1 THEN "U+D800" ELSE "A"]) :
                       n \in {MinTextLen, MaxTextLen} }
              \cup { NotStr, [t |-> "list", s |-> [k \in 1..MinTextLen |-> "A"]] },
        tr \in {"absent", "true", "false"} }

\* lines 328-333: the two length checks
TextLengthValid_NoMaximum(text) == Len(text.s) >= MinTextLen
TextLengthValid(text) == Len(text.s) >= MinTextLen /\ Len(text.s) <= MaxTextLen

\* lines 301-429: the response status, whether the body has an "error", the
\* services called and the "results", "summary" and "job_id" of the body;
\* detect is the language detected, translate says whether
\* translate_to_english translated, sentiment is the outcome of
\* analyze_sentiment, which raises where optimize_text_for_analysis does
analyze_text(req, detect, translate, sentiment) ==
    LET reply(status, services, entries, counts) ==
            [status |-> status, error |-> status # 200, called |-> services,
             results |-> entries, summary |-> counts, job_id |-> status = 200]
        refuse(status, services) ==
            reply(status, services, <<>>, [positive |-> 0, negative |-> 0, neutral |-> 0])
        include_translation == req.translate # "false"
        generate_insights == req.translate = "absent"
        translating == include_translation /\ detect # "en"
        was_translated == translating /\ translate
        translated_text == IF was_translated THEN Str(Good) ELSE req.text
        called == {"detect_language", "analyze_sentiment"}
                  \cup (IF translating THEN {"translate_to_english"} ELSE {})
        title == [l \in {POSITIVE, NEGATIVE, NEUTRAL} |->
                    IF l = POSITIVE THEN "Positive"
                    ELSE IF l = NEGATIVE THEN "Negative" ELSE "Neutral"]
        result_entry == [text |-> req.text,
                         sentiment |-> title[sentiment[1]],
                         confidence |-> sentiment[2],
                         language |-> IF detect = "en" THEN "English" ELSE "French"]
        summary == [positive |-> IF sentiment[1] = POSITIVE THEN 1 ELSE 0,
                    negative |-> IF sentiment[1] = NEGATIVE THEN 1 ELSE 0,
                    neutral |-> IF sentiment[1] = NEUTRAL THEN 1 ELSE 0]
    IN  IF ~req.is_json THEN refuse(400, {})
        ELSE IF ~req.valid THEN refuse(400, {})
        ELSE IF ~req.has_text THEN refuse(400, {})
        ELSE IF req.text.t = "int" THEN refuse(500, {})
        ELSE IF ~TextLengthValid(req.text) THEN refuse(400, {})
        ELSE IF OptimizeRaises(translated_text) THEN refuse(500, called)
        ELSE reply(200,
                   called \cup (IF generate_insights THEN {"generate_insights"} ELSE {}),
                   <<result_entry>>, summary)

\* LanguageService.detect_language answers 'en' for a text of fewer than
\* DetectMinLen characters and when it fails (a text that is no str)
CallAnalyze ==
    /\ args[1] = "analyze_text"
    /\ ret.st = "none"
    /\ \E detect \in Languages, translate \in BOOLEAN,
          sentiment \in {POSITIVE, NEGATIVE, NEUTRAL} \X {50, 95} :
          /\ (~IsStr(args[2].text) \/ Len(args[2].text.s) < DetectMinLen) => detect = "en"
          /\ ret' = Ok(analyze_text(args[2], detect, translate, sentiment))
    /\ UNCHANGED <<sentiment_cache, client, config, normalizer, jobs, translation, pc, request, tasks, calls, args>>

\* TokenizationService._apply_tokenization_pipeline applied to a text of
\* letters in both cases, punctuation and spaces
NormalizeCalls ==
    { <<"_apply_tokenization_pipeline", Str(t), language>> :
        t \in UNION { [1..n -> {"g", "G", "!", ",", ":", ")", " "}] : n \in 0..MaxNormalized },
        language \in Languages }

CallNormalize ==
    /\ args[1] = "_apply_tokenization_pipeline"
    /\ ret.st = "none"
    /\ ret' = Ok(Str(_apply_tokenization_pipeline(args[2].s, args[3])))
    /\ UNCHANGED <<sentiment_cache, client, config, normalizer, jobs, translation, pc, request, tasks, calls, args>>

\* OllamaService._create_insights_prompt, lines 489-490: the dominant
\* sentiment the prompt names for the counts of a ProcessingResult
dominant_sentiment_Strict(positive_count, negative_count, neutral_count) ==
    IF positive_count > negative_count /\ positive_count > neutral_count THEN "positive"
    ELSE IF negative_count > neutral_count THEN "negative"
    ELSE "neutral"
dominant_sentiment(positive_count, negative_count, neutral_count) ==
    IF positive_count >= negative_count /\ positive_count >= neutral_count THEN "positive"
    ELSE IF negative_count >= neutral_count THEN "negative"
    ELSE "neutral"

CallInsightsPrompt ==
    /\ args[1] = "_create_insights_prompt"
    /\ ret.st = "none"
    /\ ret' = Ok(dominant_sentiment(args[2], args[3], args[4]))
    /\ UNCHANGED <<sentiment_cache, client, config, normalizer, jobs, translation, pc, request, tasks, calls, args>>

\* ------------------------------------------------------- ChunkingService
\* str.strip()
Strip_Collapse(s) == Join(Split(s))
Strip(s) ==
    LET ns == {n \in 1..Len(s) : ~IsSpace(s[n])}
    IN  IF ns = {} THEN <<>>
        ELSE SubSeq(s, CHOOSE a \in ns : \A b \in ns : a <= b,
                       CHOOSE a \in ns : \A b \in ns : a >= b)

\* text[a:b] with Python's offsets, counted from 0 and from the end of the
\* text when negative
PySlice(text, a, b) ==
    LET n == Len(text)
        at(x) == IF x < 0 THEN Max(0, x + n) ELSE Min(x, n)
    IN  SubSeq(text, at(a) + 1, at(b))

\* lines 86-92: runs of whitespace become one space, the characters
\* outside ASCII (here U+00E9) are dropped, and the result is stripped
_clean_text(text) ==
    LET kept == SelectSeq([n \in 1..Len(text) |-> n],
                          LAMBDA n : ~(n > 1 /\ IsSpace(text[n]) /\ IsSpace(text[n - 1])))
        ascii == SelectSeq([k \in 1..Len(kept) |-> text[kept[k]]],
                           LAMBDA c : c # "U+00E9")
    IN  Strip(ascii)

\* lines 191-204: re.split at the whitespace between a sentence end and an
\* upper-case letter (here A and G); every non-blank part, stripped, with
\* its offsets, from the part that starts at a
RECURSIVE SentencesFrom(_, _)
SentencesFrom(text, a) ==
    LET n == Len(text)
        SentenceEnd == {".", "!", "?"}
        UpperCase == {"A", "G"}
        next(p) == CHOOSE q \in p + 1..n + 1 :
                       /\ q = n + 1 \/ ~IsSpace(text[q])
                       /\ \A r \in p + 1..q - 1 : IsSpace(text[r])
        cuts == {p \in a..n - 1 : /\ text[p] \in SentenceEnd
                                   /\ next(p) > p + 1 /\ next(p) <= n
                                   /\ text[next(p)] \in UpperCase}
        part(lo, hi) ==
            LET raw == SubSeq(text, lo, hi)
                lead == CHOOSE d \in 0..Len(raw) :
                            /\ d = Len(raw) \/ ~IsSpace(raw[d + 1])
                            /\ \A r \in 1..d : IsSpace(raw[r])
            IN  IF Strip(raw) = <<>> THEN <<>>
                ELSE << [text |-> Strip(raw), start |-> lo - 1 + lead,
                         end |-> lo - 1 + lead + Len(Strip(raw))] >>
    IN  IF a > n THEN <<>>
        ELSE IF cuts = {} THEN part(a, n)
        ELSE LET p == CHOOSE c \in cuts : \A d \in cuts : c <= d
             IN  part(a, p) \o SentencesFrom(text, next(p))

\* lines 205-209: the whole text is one sentence when none was found
_split_into_sentences(text) ==
    IF SentencesFrom(text, 1) = <<>>
    THEN << [text |-> text, start |-> 0, end |-> Len(text)] >>
    ELSE SentencesFrom(text, 1)

\* lines 107-140: the loop over the sentences from the k-th on, with the
\* chunks closed so far and the chunk being filled
RECURSIVE _chunk_by_sentences(_, _, _, _, _, _, _, _)
_chunk_by_sentences(text, chunk_size, overlap, sentences, k, chunks, current_chunk, cur) ==
    IF k > Len(sentences)
    THEN IF current_chunk # <<>>
         THEN Append(chunks, [text |-> Join(current_chunk), start |-> cur.start,
                              end |-> Len(text)])
         ELSE chunks
    ELSE LET sentence == sentences[k]
             sentence_length == Len(sentence.text)
             close == cur.length + sentence_length > chunk_size /\ current_chunk # <<>>
             seed == overlap > 0 /\ Len(current_chunk) > 1
             last == current_chunk[Len(current_chunk)]
             kept == IF ~close THEN current_chunk ELSE IF seed THEN <<last>> ELSE <<>>
             length == IF ~close THEN cur.length ELSE IF seed THEN Len(last) ELSE 0
             start == IF ~close THEN cur.start
                      ELSE IF seed THEN sentence.start - Len(last) ELSE sentence.start
         IN  _chunk_by_sentences(text, chunk_size, overlap, sentences, k + 1,
                 IF close
                 THEN Append(chunks, [text |-> Join(current_chunk), start |-> cur.start,
                                      end |-> sentence.start])
                 ELSE chunks,
                 Append(kept, sentence.text),
                 [length |-> length + sentence_length + 1, start |-> start])

\* lines 152-179: the while loop from offset start on; seen holds the
\* offsets the loop has started from, and a loop that comes back to one of
\* them never ends. Line 164: the characters of ' .,;!?\\n' are a backslash
\* and the letter n, not a newline.
RECURSIVE _chunk_by_characters(_, _, _, _, _, _)
_chunk_by_characters(text, chunk_size, overlap, start, seen, chunks) ==
    LET text_length == Len(text)
        BreakChars == {" ", ".", ",", ";", "!", "?", "\\", "n"}
        PyIndex(j) == text[(IF j < 0 THEN j + text_length ELSE j) + 1]
        window == Min(start + chunk_size, text_length)
        breaks == {j \in Max(start + min_chunk_size, window - BreakWindow) + 1..window :
                       PyIndex(j) \in BreakChars}
        end == IF window < text_length /\ breaks # {}
               THEN (CHOOSE j \in breaks : \A m \in breaks : j >= m) + 1
               ELSE window
        chunk_text == Strip(PySlice(text, start, end))
        more == IF chunk_text # <<>>
                THEN Append(chunks, [text |-> chunk_text, start |-> start, end |-> end])
                ELSE chunks
    IN  IF start >= text_length THEN [hang |-> FALSE, chunks |-> chunks]
        ELSE IF start \in seen THEN [hang |-> TRUE, chunks |-> chunks]
        ELSE IF end < text_length
             THEN _chunk_by_characters(text, chunk_size, overlap, end - overlap,
                                  seen \cup {start}, more)
             ELSE [hang |-> FALSE, chunks |-> more]

\* lines 40-74: the units of a text; the service holds chunk_size, overlap
chunk_text_NoSentenceOverlap(text, preserve_sentences, chunk_size, overlap) ==
    IF text = <<>> \/ Len(Strip(text)) < min_chunk_size
    THEN [hang |-> FALSE,
          units |-> << [chunk_id |-> 0, text |-> Strip(text), start_index |-> 0,
                        end_index |-> Len(text)] >>]
    ELSE LET cleaned == _clean_text(text)
             found == IF preserve_sentences
                      THEN [hang |-> FALSE,
                            chunks |-> _chunk_by_sentences(cleaned, chunk_size, 0,
                                          _split_into_sentences(cleaned), 1, <<>>, <<>>,
                                          [length |-> 0, start |-> 0])]
                      ELSE _chunk_by_characters(cleaned, chunk_size, overlap, 0, {}, <<>>)
         IN  [hang |-> found.hang,
              units |-> [k \in 1..Len(found.chunks) |->
                            [chunk_id |-> k - 1, text |-> found.chunks[k].text,
                             start_index |-> found.chunks[k].start,
                             end_index |-> found.chunks[k].end]]]
chunk_text(text, preserve_sentences, chunk_size, overlap) ==
    IF text = <<>> \/ Len(Strip(text)) < min_chunk_size
    THEN [hang |-> FALSE,
          units |-> << [chunk_id |-> 0, text |-> Strip(text), start_index |-> 0,
                        end_index |-> Len(text)] >>]
    ELSE LET cleaned == _clean_text(text)
             found == IF preserve_sentences
                      THEN [hang |-> FALSE,
                            chunks |-> _chunk_by_sentences(cleaned, chunk_size, overlap,
                                          _split_into_sentences(cleaned), 1, <<>>, <<>>,
                                          [length |-> 0, start |-> 0])]
                      ELSE _chunk_by_characters(cleaned, chunk_size, overlap, 0, {}, <<>>)
         IN  [hang |-> found.hang,
              units |-> [k \in 1..Len(found.chunks) |->
                            [chunk_id |-> k - 1, text |-> found.chunks[k].text,
                             start_index |-> found.chunks[k].start,
                             end_index |-> found.chunks[k].end]]]

\* the texts chunked: a pattern repeated up to a length, between optional
\* blanks; the service as constructed by default and with smaller chunks
ChunkCalls ==
    LET patterns == { <<"a">>, <<" ">>, <<"U+00E9">>, <<"A", "b", "c", "d", " ", "e", "f", "g", ".", " ">>,
                      <<"a", " ", " ", "U+00E9", " ", "b", ",">>,
                      <<"G", "o", "o", "d", " ", "o", "n", "e", " ", "i", "t", " ",
                        "i", "s", "!", " ">>,
                      \* three sentences of 9, 40 and 51 characters
                      [k \in 1..103 |-> IF k \in {9, 50, 102} THEN "."
                                        ELSE IF k \in {10, 51, 103} THEN " "
                                        ELSE IF k \in {1, 11, 52} THEN "A" ELSE "b"],
                      \* three sentences of 51, 9 and 40 characters
                      [k \in 1..103 |-> IF k \in {51, 61, 102} THEN "."
                                        ELSE IF k \in {52, 62, 103} THEN " "
                                        ELSE IF k \in {1, 53, 63} THEN "A" ELSE "b"] }
        lengths == {0, 2, min_chunk_size - 1, min_chunk_size, min_chunk_size + 1,
                    MaxChunkText}
        blanks == { <<>>, <<" ">> }
    IN  { <<"chunk_text",
            Str(pre \o [k \in 1..n |-> w[((k - 1) % Len(w)) + 1]] \o post),
            mode, cfg[1], cfg[2]>> :
            w \in patterns, n \in lengths, pre \in blanks, post \in blanks,
            mode \in BOOLEAN,
            cfg \in { <<default_chunk_size, default_overlap>>, <<SmallChunk, 0>>,
                      <<SmallChunk, SmallOverlap>>, <<SmallChunk, LargeOverlap>> } }

CallChunk ==
    /\ args[1] = "chunk_text"
    /\ ret.st = "none"
    /\ ret' = LET out == chunk_text(args[2].s, args[3], args[4], args[5])
              IN  IF out.hang THEN [st |-> "hang", val |-> None] ELSE Ok(out.units)
    /\ UNCHANGED <<sentiment_cache, client, config, normalizer, jobs, translation, pc, request, tasks, calls, args>>

\* ------------------------------------------- the batch response parser
\* A response is a sequence of lexemes: "[", "]", "{", "}", ",", the number
\* "1", "P" for the members "sentiment": "positive", "confidence": 0.9 of an
\* object, the word "x", the fence markers "~~~json" and "~~~", and the
\* whitespace " " and "\n".

\* json.loads: whether the text is JSON and, for an array, its elements
\* ("{" an object, "[" an array, "1" a number)
json_loads(s) ==
    LET t == SelectSeq(s, LAMBDA c : c \notin {" ", "\n"})
        at(p) == IF p >= 1 /\ p <= Len(t) THEN t[p] ELSE "$"
        RECURSIVE ValueEnd(_), ElementsEnd(_), Elements(_)
        ValueEnd(p) ==
            IF at(p) = "1" THEN p + 1
            ELSE IF at(p) = "{"
                 THEN (IF at(p + 1) = "P" /\ at(p + 2) = "}" THEN p + 3 ELSE 0)
            ELSE IF at(p) = "["
                 THEN (IF at(p + 1) = "]" THEN p + 2 ELSE ElementsEnd(p + 1))
            ELSE 0
        ElementsEnd(p) ==
            LET e == ValueEnd(p)
            IN  IF e = 0 THEN 0
                ELSE IF at(e) = "]" THEN e + 1
                ELSE IF at(e) = "," THEN ElementsEnd(e + 1)
                ELSE 0
        Elements(p) ==
            IF at(p) = "]" THEN <<>>
            ELSE <<at(p)>> \o (IF at(ValueEnd(p)) = "," THEN Elements(ValueEnd(p) + 1)
                               ELSE <<>>)
        ok == ValueEnd(1) = Len(t) + 1
    IN  [ok |-> ok, items |-> IF ok /\ at(1) = "[" THEN Elements(2) ELSE <<>>]

\* lines 723-725: the two re.sub calls, of every opening fence marker with
\* the whitespace after it, then of a fence marker followed by whitespace up
\* to the end
Unfenced(content) ==
    LET space(c) == c \in {" ", "\n"}
        RECURSIVE NoOpening(_, _)
        NoOpening(s, after) ==
            IF s = <<>> THEN <<>>
            ELSE IF Head(s) = "~~~json" THEN NoOpening(Tail(s), TRUE)
            ELSE IF after /\ space(Head(s)) THEN NoOpening(Tail(s), TRUE)
            ELSE <<Head(s)>> \o NoOpening(Tail(s), FALSE)
        NoClosing(s) ==
            LET ps == {p \in 1..Len(s) : s[p] = "~~~" /\ \A q \in (p + 1)..Len(s) : space(s[q])}
            IN  IF ps = {} THEN s ELSE SubSeq(s, 1, (CHOOSE p \in ps : TRUE) - 1)
    IN  NoClosing(NoOpening(content, FALSE))

\* lines 727-735: re.findall(pattern, s, re.DOTALL)[0] for the two patterns,
\* '\[.*\]' and '\[\s*\{.*\}\s*\]'; <<>> for a pattern without a match
json_patterns(s) ==
    LET space(c) == c \in {" ", "\n"}
        first(ps) == CHOOSE p \in ps : \A q \in ps : p <= q
        last(ps) == CHOOSE p \in ps : \A q \in ps : p >= q
        opens == {p \in 1..Len(s) : s[p] = "["}
        closes == {p \in 1..Len(s) : s[p] = "]"}
        brace(p) == {q \in (p + 1)..Len(s) :
                       s[q] = "{" /\ \A r \in (p + 1)..(q - 1) : space(s[r])}
        closed(p) == {q \in 1..(p - 1) :
                        s[q] = "}" /\ \A r \in (q + 1)..(p - 1) : space(s[r])}
        ends(p) == {e \in closes : \E q \in closed(e) : q > first(brace(p))}
        matching == {p \in opens : brace(p) # {} /\ ends(p) # {}}
    IN  << IF opens # {} /\ closes # {} /\ first(opens) < last(closes)
           THEN SubSeq(s, first(opens), last(closes)) ELSE <<>>,
           IF matching = {} THEN <<>>
           ELSE SubSeq(s, first(matching), last(ends(first(matching)))) >>

\* lines 758-770: the lines from the last line met that starts with "[" to
\* the first line after it that ends with "]", joined again
LineScan(content) ==
    LET RECURSIVE Lines(_, _)
        Lines(s, cur) ==
            IF s = <<>> THEN <<cur>>
            ELSE IF Head(s) = "\n" THEN <<cur>> \o Lines(Tail(s), <<>>)
            ELSE Lines(Tail(s), Append(cur, Head(s)))
        lines == [k \in 1..Len(Lines(content, <<>>)) |-> Strip(Lines(content, <<>>)[k])]
        RECURSIVE Scan(_, _, _)
        Scan(k, in_array, json_lines) ==
            IF k > Len(lines) THEN json_lines
            ELSE IF lines[k] # <<>> /\ lines[k][1] = "["
                 THEN Scan(k + 1, TRUE, <<lines[k]>>)
            ELSE IF in_array
                 THEN (IF lines[k] # <<>> /\ lines[k][Len(lines[k])] = "]"
                       THEN Append(json_lines, lines[k])
                       ELSE Scan(k + 1, TRUE, Append(json_lines, lines[k])))
            ELSE Scan(k + 1, FALSE, json_lines)
        RECURSIVE JoinLines(_)
        JoinLines(ls) == IF ls = <<>> THEN <<>>
                         ELSE IF Len(ls) = 1 THEN ls[1]
                         ELSE ls[1] \o <<"\n">> \o JoinLines(Tail(ls))
    IN  JoinLines(Scan(1, FALSE, <<>>))

\* lines 711-783: without its fence markers the content is searched with the
\* two patterns, then the "thinking" field of the response is, then the
\* lines are scanned; the first candidate that is JSON is returned, and ""
\* (here <<>>) when none is
_extract_json_from_response_ThinkingFirst(content, thinking) ==
    LET valid(s) == s # <<>> /\ json_loads(s).ok
        found(s) == IF valid(json_patterns(s)[1]) THEN json_patterns(s)[1]
                    ELSE IF valid(json_patterns(s)[2]) THEN json_patterns(s)[2]
                    ELSE <<>>
    IN  IF found(thinking) # <<>> THEN found(thinking)
        ELSE IF found(Unfenced(content)) # <<>> THEN found(Unfenced(content))
        ELSE IF valid(LineScan(Unfenced(content))) THEN LineScan(Unfenced(content))
        ELSE <<>>
_extract_json_from_response(content, thinking) ==
    LET valid(s) == s # <<>> /\ json_loads(s).ok
        found(s) == IF valid(json_patterns(s)[1]) THEN json_patterns(s)[1]
                    ELSE IF valid(json_patterns(s)[2]) THEN json_patterns(s)[2]
                    ELSE <<>>
    IN  IF found(Unfenced(content)) # <<>> THEN found(Unfenced(content))
        ELSE IF thinking # <<>> /\ found(thinking) # <<>> THEN found(thinking)
        ELSE IF valid(LineScan(Unfenced(content))) THEN LineScan(Unfenced(content))
        ELSE <<>>

\* _batch_sentiment_api_call, lines 662-692: the content of the response,
\* stripped, is searched for JSON; an array of objects gives one outcome per
\* text, anything else leaves the texts to be analysed one by one
ParseBatchResponse(response, thinking, n) ==
    LET space(c) == c \in {" ", "\n"}
        ns == {k \in 1..Len(response) : ~space(response[k])}
        content == IF ns = {} THEN <<>>
                   ELSE SubSeq(response, CHOOSE a \in ns : \A b \in ns : a <= b,
                                         CHOOSE a \in ns : \A b \in ns : a >= b)
        json_content == _extract_json_from_response(content, thinking)
        items == json_loads(json_content).items
        results_json == [k \in 1..Len(items) |-> [sentiment |-> "positive", confidence |-> 90]]
    IN  IF json_content = <<>> \/ \E k \in 1..Len(items) : items[k] # "{"
        THEN [content |-> content, json_content |-> json_content,
              individually |-> TRUE, results |-> <<>>]
        ELSE [content |-> content, json_content |-> json_content,
              individually |-> FALSE, results |-> BatchParsed(results_json, n)]

\* the responses parsed: up to MaxPieces pieces one after the other, with a
\* "thinking" field that is empty, an array or prose
ParseCalls ==
    LET pieces == { <<"~~~json", "\n">>, <<"\n", "~~~">>, <<"[", "{", "P", "}", "]">>,
                    <<"{", "P", "}">>, <<"[", "1">>, <<"]">>, <<"\n", "]">>, <<"x">>,
                    <<",">> }
        RECURSIVE Contents(_)
        Contents(n) == IF n = 0 THEN { <<>> }
                       ELSE Contents(n - 1)
                            \cup { c \o piece : c \in Contents(n - 1), piece \in pieces }
    IN  { <<"_batch_sentiment_api_call", content, thinking, n>> :
            content \in Contents(MaxPieces),
            thinking \in { <<>>, <<"x", "[", "{", "P", "}", "]">> },
            n \in {1, 2} }

CallParse ==
    /\ args[1] = "_batch_sentiment_api_call"
    /\ ret.st = "none"
    /\ ret' = Ok(ParseBatchResponse(args[2], args[3], args[4]))
    /\ UNCHANGED <<sentiment_cache, client, config, normalizer, jobs, translation, pc, request, tasks, calls, args>>

\* the calls applied: the name of a function and its arguments
FunctionCalls ==
    FallbackCalls \cup AnalyzeCalls \cup ChunkCalls \cup NormalizeCalls \cup ParseCalls
    \cup { <<"_create_insights_prompt", positive_count, negative_count, neutral_count>> :
             positive_count \in 0..MaxCount, negative_count \in 0..MaxCount,
             neutral_count \in 0..MaxCount }

InitFunctions ==
    /\ Quiet
    /\ args \in FunctionCalls
    /\ ret = NoResult

NextFunctions ==
    \/ CallFallback
    \/ CallAnalyze
    \/ CallChunk
    \/ CallNormalize
    \/ CallInsightsPrompt
    \/ CallParse

SpecFunctions == InitFunctions /\ [][NextFunctions]_vars

\* ------------------------------------------------------------ translation
\* the characters of a language code
LangCode(l) ==
    IF l = "en" THEN <<"e", "n">> ELSE IF l = "fr" THEN <<"f", "r">> ELSE <<"?">>

\* the texts translated: Good, and two texts that differ after KeyPrefix
\* characters
TranslateTexts ==
    { Str(Good) } \cup { Str([k \in 1..KeyPrefix |-> "x"] \o <<c>>) : c \in {"a", "b"} }

\* what client.chat does for a translation prompt: it raises, answers
\* without a message, with an empty message, or with a quoted translation
Translations ==
    { [kind |-> "raise", content |-> <<>>], [kind |-> "nomessage", content |-> <<>>],
      [kind |-> "message", content |-> <<>>],
      [kind |-> "message", content |-> <<"\"", "o", "k", "\"", " ">>] }

\* line 283: if source_lang == target_lang
SameLanguage_Never(source_lang, target_lang) == FALSE
SameLanguage(source_lang, target_lang) == source_lang = target_lang

\* OllamaService.translate_text, lines 276-423, run by one thread: the
\* result, the cache afterwards, and the number of chat requests sent.
\* _clean_translation strips the answer and takes one pair of double quotes
\* off it.
translate_text(cache, has_client, text, source_lang, target_lang, response) ==
    LET cache_key == [op |-> "translation",
                      text |-> LangCode(source_lang) \o <<"_">> \o LangCode(target_lang)
                               \o <<"_">> \o text.s]
        made(translated_text, was_translated, error) ==
            [original_text |-> text, translated_text |-> translated_text,
             source_language |-> source_lang, was_translated |-> was_translated,
             error |-> error]
        stored(result, chats) ==
            [result |-> result, chats |-> chats,
             cache |-> CachePut(_manage_cache_size(cache), cache_key, result)]
        stripped == Strip(response.content)
        cleaned == IF Len(stripped) > 0 /\ Head(stripped) = "\""
                      /\ stripped[Len(stripped)] = "\""
                   THEN SubSeq(stripped, 2, Len(stripped) - 1)
                   ELSE stripped
    IN  IF CacheHas(cache, cache_key)
        THEN [result |-> CacheGet(cache, cache_key), chats |-> 0, cache |-> cache]
        ELSE IF SameLanguage(source_lang, target_lang)
        THEN stored(made(text, FALSE, ""), 0)
        ELSE IF ~has_client
        THEN [result |-> made(text, FALSE, "Translation service not available"),
              chats |-> 0, cache |-> cache]
        ELSE IF response.kind = "raise" THEN stored(made(text, FALSE, "raised"), 1)
        ELSE IF response.kind = "nomessage"
        THEN stored(made(text, FALSE, "Translation failed"), 1)
        ELSE IF cleaned = <<>> THEN stored(made(text, FALSE, ""), 1)
        ELSE stored(made(Str(cleaned), TRUE, ""), 1)

\* a caller of OllamaService.translate_text
TranslateText ==
    /\ calls < MaxCalls
    /\ calls' = calls + 1
    /\ \E text \in TranslateTexts, source_lang \in Languages, target_lang \in Languages,
          response \in Translations :
          LET out == translate_text(translation_cache, client, text, source_lang,
                                    target_lang, response)
          IN  /\ args' = <<"translate_text", text, source_lang, target_lang>>
              /\ ret' = Ok(out.result)
              /\ translation_cache' = out.cache
              /\ translation_chats' = translation_chats + out.chats
    /\ UNCHANGED <<sentiment_cache, client, config, normalizer, jobs, service_translation_cache, pc, request,
                   tasks>>

\* TranslationService.translate_to_english, lines 42-80; source_lang "" is
\* None, and then the language is detected
TranslateToEnglish ==
    /\ calls < MaxCalls
    /\ calls' = calls + 1
    /\ \E text \in TranslateTexts, given \in Languages \cup {""}, detected \in Languages,
          response \in Translations :
          LET source_lang == IF given = "" THEN detected ELSE given
              cache_key == LangCode(source_lang) \o <<":">> \o PySlice(text.s, 0, KeyPrefix)
              out == translate_text(translation_cache, client, text, source_lang, "en",
                                    response)
          IN  /\ args' = <<"translate_to_english", text, source_lang, "en">>
              /\ IF source_lang \in {"en", "english"}
                 THEN /\ ret' = Ok([original_text |-> text, translated_text |-> text,
                                    source_language |-> source_lang,
                                    was_translated |-> FALSE, error |-> ""])
                      /\ UNCHANGED translation
                 ELSE IF CacheHas(service_translation_cache, cache_key)
                 THEN /\ ret' = Ok(CacheGet(service_translation_cache, cache_key))
                      /\ UNCHANGED translation
                 ELSE /\ ret' = Ok(out.result)
                      /\ translation_cache' = out.cache
                      /\ translation_chats' = translation_chats + out.chats
                      /\ service_translation_cache' =
                            IF out.result.was_translated
                            THEN CachePut(service_translation_cache, cache_key, out.result)
                            ELSE service_translation_cache
    /\ UNCHANGED <<sentiment_cache, client, config, normalizer, jobs, pc, request, tasks>>

InitTranslate ==
    /\ sentiment_cache = EmptyCache
    /\ client \in BOOLEAN
    /\ batch_size = CtorBatchSize
    /\ max_workers = CtorMaxWorkers
    /\ NoRequest
    /\ normalizer_cache = EmptyCache
    /\ NoCall

NextTranslate ==
    \/ TranslateText
    \/ TranslateToEnglish

SpecTranslate == InitTranslate /\ [][NextTranslate]_vars

\* ------------------------------------------ the normalizer's result cache
normalizer_max_cache_size == 2000
oldest_count == 100
pool_max_workers == 4

\* The cache when a batch arrives: as constructed, or after earlier texts
\* have filled it to one below its bound or to its bound; and with the
\* result of an earlier optimize_text_for_analysis(' good', 'en') or not.
NormalizerCaches ==
    LET key == [op |-> "optimize", lang |-> "en", text |-> Str(<<" ">> \o Good)]
        warm == << [key |-> key, val |-> optimize_text_for_analysis(key.text, "en")] >>
    IN  { [lo |-> 0, hi |-> Max(0, n - Len(w)), seq |-> w] :
             n \in {0, normalizer_max_cache_size - 1, normalizer_max_cache_size},
             w \in {<<>>, warm} }

\* _process_batch_parallel gives one optimize_text_for_analysis call per
\* (text, language) pair to its pool
SubmitParallel(ts, ls) ==
    /\ args = <<"none">>
    /\ futures = <<>>
    /\ args' = <<"_process_batch_parallel", ts, ls>>
    /\ futures' = [k \in 1..Min(Len(ts), Len(ls)) |->
                      [pc |-> "queued", text |-> ts[k], language |-> ls[k],
                       snap |-> NoSnap, val |-> ts[k]]]
    /\ UNCHANGED <<sentiment_cache, client, config, jobs, translation, pc, request,
                   tasks, calls, ret, normalizer_cache>>

\* one step of the optimize_text_for_analysis call k in its pool thread; the
\* threads are switched between the reads and writes of the shared dict, and
\* the loop of dels is taken as one step
Optimize(k) ==
    LET f == futures[k]
        cache_key == [op |-> "optimize", lang |-> f.language, text |-> f.text]
        running == { m \in 1..Len(futures) :
                        futures[m].pc \notin {"queued", "done", "raised"} }
        goto(l) == futures' = [futures EXCEPT ![k].pc = l]
        evicted == DelOldest(normalizer_cache, f.snap)
    IN  /\ args[1] = "_process_batch_parallel"
        /\ \/ /\ f.pc = "queued"
              /\ \A m \in 1..(k - 1) : futures[m].pc # "queued"
              /\ Cardinality(running) < pool_max_workers
              /\ goto("key")
              /\ UNCHANGED normalizer_cache
           \/ /\ f.pc = "key"
              /\ goto(IF OptimizeRaises(f.text) THEN "raised" ELSE "lookup")
              /\ UNCHANGED normalizer_cache
           \/ /\ f.pc = "lookup"
              /\ goto(IF CacheHas(normalizer_cache, cache_key) THEN "read" ELSE "check")
              /\ UNCHANGED normalizer_cache
           \/ /\ f.pc = "read"
              /\ futures' = [futures EXCEPT ![k] =
                    IF CacheHas(normalizer_cache, cache_key)
                    THEN [f EXCEPT !.pc = "done",
                                   !.val = CacheGet(normalizer_cache, cache_key)]
                    ELSE [f EXCEPT !.pc = "raised"]]
              /\ UNCHANGED normalizer_cache
           \/ /\ f.pc = "check"
              /\ futures' = [futures EXCEPT ![k] =
                    [f EXCEPT !.pc = IF CacheLen(normalizer_cache) >= normalizer_max_cache_size
                                     THEN "keys" ELSE "store",
                              !.val = optimize_text_for_analysis(f.text, f.language)]]
              /\ UNCHANGED normalizer_cache
           \/ /\ f.pc = "keys"
              /\ futures' = [futures EXCEPT ![k] =
                    [f EXCEPT !.pc = "del",
                              !.snap = OldestKeys(normalizer_cache, oldest_count)]]
              /\ UNCHANGED normalizer_cache
           \/ /\ f.pc = "del"
              /\ goto(IF evicted.raised THEN "raised" ELSE "store")
              /\ normalizer_cache' = evicted.cache
           \/ /\ f.pc = "store"
              /\ goto("done")
              /\ normalizer_cache' = CachePut(normalizer_cache, cache_key, f.val)
        /\ UNCHANGED <<sentiment_cache, client, config, jobs, translation, pc, request,
                       tasks, calls, call>>

\* as_completed has yielded every future: the result of each, or the
\* original text of one that raised
CollectParallel ==
    /\ args[1] = "_process_batch_parallel"
    /\ ret.st = "none"
    /\ \A k \in 1..Len(futures) : futures[k].pc \in {"done", "raised"}
    /\ ret' = Ok([optimized |-> [k \in 1..Len(futures) |->
                    IF futures[k].pc = "raised" THEN futures[k].text ELSE futures[k].val]])
    /\ UNCHANGED <<sentiment_cache, client, config, normalizer, jobs, translation, pc,
                   request, tasks, calls, args>>

InitNormalizer ==
    /\ sentiment_cache = EmptyCache
    /\ client = FALSE
    /\ batch_size = CtorBatchSize
    /\ max_workers = CtorMaxWorkers
    /\ NoRequest
    /\ NoCall
    /\ normalizer_cache \in NormalizerCaches

NextNormalizer ==
    \/ \E ts \in Batches : \E ls \in [1..Len(ts) -> Languages] : SubmitParallel(ts, ls)
    \/ \E k \in 1..Len(futures) : Optimize(k)
    \/ CollectParallel

SpecNormalizer == InitNormalizer /\ [][NextNormalizer]_vars

\* ------------------------------------------------------ the stored results
MaxBatchTexts == 100

\* a request to /api/analyze/batch or /api/results/<job_id> arrives and is
\* given a thread; uuid4 gives a batch request an id no request had before;
\* deleted notes that a DELETE of the id had been answered 200 by then
ReceiveRequest(route, id) ==
    /\ Len(handlers) < MaxRequests
    /\ handlers' = Append(handlers,
          [route |-> route,
           job_id |-> IF route = "POST" THEN Len(handlers) + 1 ELSE id,
           pc |-> "received", status |-> 0,
           body |-> [job_id |-> 0, total_reviews |-> 0],
           deleted |-> \E d \in 1..Len(handlers) :
                          /\ handlers[d].route = "DELETE" /\ handlers[d].job_id = id
                          /\ handlers[d].pc = "done" /\ handlers[d].status = 200])
    /\ UNCHANGED <<sentiment_cache, client, config, normalizer, translation, pc, request,
                   tasks, calls, call, results_store>>

\* job_id in results_store, and results_store[job_id]
Stored(id) == \E e \in results_store : e.job_id = id
StoredResult(id) == (CHOOSE e \in results_store : e.job_id = id).result

\* analyze_batch: no texts or too many are refused, a service that raises
\* gives 500, and otherwise the result is stored and returned
analyze_batch(k) ==
    /\ handlers[k].route = "POST" /\ handlers[k].pc = "received"
    /\ \E ts \in Batches, raises \in BOOLEAN :
          LET result == [job_id |-> handlers[k].job_id, total_reviews |-> Len(ts)]
              status == IF ts = <<>> \/ Len(ts) > MaxBatchTexts THEN 400
                        ELSE IF raises THEN 500 ELSE 200
          IN  /\ handlers' = [handlers EXCEPT ![k].pc = "done", ![k].status = status,
                                              ![k].body = IF status = 200 THEN result ELSE @]
              /\ results_store' = IF status = 200
                                  THEN results_store \cup {[job_id |-> result.job_id,
                                                            result |-> result]}
                                  ELSE results_store
    /\ UNCHANGED <<sentiment_cache, client, config, normalizer, translation, pc, request,
                   tasks, calls, call>>

\* get_results: the test at line 548, then the read at line 552, whose
\* KeyError the handler turns into 500
get_results(k) ==
    LET h == handlers[k]
    IN  /\ h.route = "GET"
        /\ \/ /\ h.pc = "received"
              /\ handlers' = IF Stored(h.job_id)
                             THEN [handlers EXCEPT ![k].pc = "found"]
                             ELSE [handlers EXCEPT ![k].pc = "done", ![k].status = 404]
           \/ /\ h.pc = "found"
              /\ handlers' = IF Stored(h.job_id)
                             THEN [handlers EXCEPT ![k].pc = "done", ![k].status = 200,
                                                   ![k].body = StoredResult(h.job_id)]
                             ELSE [handlers EXCEPT ![k].pc = "done", ![k].status = 500]
        /\ UNCHANGED <<sentiment_cache, client, config, normalizer, translation, pc,
                       request, tasks, calls, call, results_store>>

\* delete_results: the test at line 574, then the del at line 578, whose
\* KeyError the handler turns into 500
delete_results(k) ==
    LET h == handlers[k]
    IN  /\ h.route = "DELETE"
        /\ \/ /\ h.pc = "received"
              /\ handlers' = IF Stored(h.job_id)
                             THEN [handlers EXCEPT ![k].pc = "found"]
                             ELSE [handlers EXCEPT ![k].pc = "done", ![k].status = 404]
              /\ UNCHANGED results_store
           \/ /\ h.pc = "found"
              /\ handlers' = [handlers EXCEPT ![k].pc = "done",
                                 ![k].status = IF Stored(h.job_id) THEN 200 ELSE 500]
              /\ results_store' = { e \in results_store : e.job_id # h.job_id }
        /\ UNCHANGED <<sentiment_cache, client, config, normalizer, translation, pc,
                       request, tasks, calls, call>>

\* the requests are handled by one thread each, which the server runs
\* side by side
NextResults ==
    \/ \E route \in {"POST", "GET", "DELETE"}, id \in 1..MaxRequests :
          ReceiveRequest(route, id)
    \/ \E k \in 1..Len(handlers) : analyze_batch(k)
    \/ \E k \in 1..Len(handlers) : get_results(k)
    \/ \E k \in 1..Len(handlers) : delete_results(k)

SpecResults == InitTranslate /\ [][NextResults]_vars

\* ------------------------------------------------------------- properties
Returned(o) == pc = "returned" /\ op = o
Uncached == 1..Len(uncached_indices)
\* what the batch makes of the call of the k-th uncached position
WorkerOutcome(k) ==
    IF tasks[k].result.st = "ok" THEN tasks[k].result.val ELSE <<NEUTRAL, 0>>
Failed(k) == tasks[k].result.st = "exc"
InRange(outcome) == outcome[2] >= 50 /\ outcome[2] <= 95

\* C1: a returned batch has one entry per text, and entry m is the outcome of
\* the worker that analysed the text of position m, or the value the cache
\* held for position m at partition time, also when workers fail.
C1_ResultsPositional ==
    Returned("batch") =>
        /\ Len(results) = Len(texts)
        /\ \A m \in 1..Len(texts) : results[m] # None
        /\ \A k \in Uncached :
              /\ tasks[k].text = optimized_texts[uncached_indices[k]]
              /\ results[uncached_indices[k]] = WorkerOutcome(k)
        /\ \A m \in 1..Len(texts) :
              (\A k \in Uncached : uncached_indices[k] # m) => results[m] = own[m]

\* a batch whose texts ran concurrently has returned; the worker of the
\* first position failed and the worker of the second parsed a response
C1_Witness ==
    /\ Returned("batch") /\ Len(texts) >= 2 /\ Len(uncached_indices) = Len(texts)
    /\ batch_size >= 2 /\ max_workers >= 2
    /\ Failed(1) /\ results[1] = <<NEUTRAL, 0>>
    /\ ~Failed(2) /\ results[2] = <<POSITIVE, 95>>

C3_CacheBounded == CacheLen(sentiment_cache) <= max_cache_size

\* the same str at two uncached positions of a returned batch
Duplicates(k, m) ==
    /\ k < m
    /\ IsStr(texts[uncached_indices[k]])
    /\ texts[uncached_indices[k]] = texts[uncached_indices[m]]
    /\ languages[uncached_indices[k]] = languages[uncached_indices[m]]

\* C4 as stated: for a text at two uncached positions of a batch exactly one
\* chat request is made and both positions receive the same outcome.
C4_OneCallForDuplicates ==
    Returned("batch") =>
        \A k \in Uncached, m \in Uncached :
            Duplicates(k, m) =>
                /\ tasks[k].chats + tasks[m].chats = 1
                /\ results[uncached_indices[k]] = results[uncached_indices[m]]

\* C4 amended: each of the two positions is dispatched to its own worker,
\* which sends at most two chat requests, and each position receives the
\* outcome of its own worker.
C4_OneWorkerPerDuplicate ==
    Returned("batch") =>
        \A k \in Uncached, m \in Uncached :
            Duplicates(k, m) =>
                /\ tasks[k].pc = "done" /\ tasks[m].pc = "done"
                /\ tasks[k].chats <= 2 /\ tasks[m].chats <= 2
                /\ results[uncached_indices[k]] = WorkerOutcome(k)
                /\ results[uncached_indices[m]] = WorkerOutcome(m)

\* both workers of a duplicated text called the model and the two positions
\* received different outcomes
C4_Witness ==
    /\ Returned("batch")
    /\ \E k \in Uncached, m \in Uncached :
          /\ Duplicates(k, m)
          /\ tasks[k].chats > 0 /\ tasks[m].chats > 0
          /\ results[uncached_indices[k]] # results[uncached_indices[m]]

\* C5: a second analyze_sentiment call with the text of the call before it
\* sends no chat request and returns the outcome of the first.
C5_SecondCallIsCacheHit ==
    (Returned("gateway") /\ prev.op = "gateway" /\ prev.ok /\ prev.text = texts[1]) =>
        /\ tasks[1].chats = 0
        /\ results[1] = prev.out

\* C6: a call sends at most two chat requests, the second only from the
\* retry, which is entered only from the first request, on an authorization
\* error, with the client initialised again once; a call that leaves a chat
\* request without a response to parse returns the heuristic fallback, and
\* the retry is never followed by another request.
C6_Counts ==
    \A k \in 1..Len(tasks) :
        LET t == tasks[k] IN
            /\ t.chats <= 2 /\ t.reinits <= 1
            /\ t.pc = "retry" => (t.chats = 1 /\ t.reinits = 1 /\ t.err = "unauthorized")
            /\ t.pc \in {"unsubmitted", "queued", "check", "read", "chat"} => t.chats = 0
C6_Step ==
    \A k \in 1..Len(tasks) :
        (pc' = pc /\ Len(tasks') = Len(tasks)) =>
            /\ tasks'[k].chats \in {tasks[k].chats, tasks[k].chats + 1}
            /\ tasks'[k].chats # tasks[k].chats => tasks[k].pc \in {"chat", "retry"}
            /\ (tasks'[k].pc = "retry" /\ tasks[k].pc # "retry") => tasks[k].pc = "chat"
            /\ tasks[k].pc = "retry" => tasks'[k].pc \in {"retry", "mcheck", "done"}
            /\ (tasks[k].pc \in {"chat", "retry"} /\ tasks'[k].pc = "done") =>
                   tasks'[k].result = Ok(_fallback_sentiment(tasks[k].text))
C6_AtMostOneRetry == []C6_Counts /\ [][C6_Step]_vars

\* a call that sent its second chat request and has a response to cache
C6_Witness ==
    \E k \in 1..Len(tasks) : tasks[k].chats = 2 /\ tasks[k].pc = "mcheck"

\* the sub-batch a submitted call belongs to
SubBatchOf(k) == (k - 1) \div Min(batch_size, Len(tasks))

\* C7: when a worker raises, its position alone becomes (Neutral, 0.0); every
\* other call of the batch, in the same and in later sub-batches, has run to
\* its end and its position holds the outcome it returned.
C7_FailureIsolated ==
    (Returned("batch") /\ \E k \in Uncached : Failed(k)) =>
        \A k \in Uncached :
            /\ tasks[k].pc = "done" /\ tasks[k].collected
            /\ Failed(k) => results[uncached_indices[k]] = <<NEUTRAL, 0>>
            /\ ~Failed(k) => results[uncached_indices[k]] = tasks[k].result.val

\* a worker of the first sub-batch failed and a worker of a later sub-batch
\* parsed a response
C7_Witness ==
    /\ Returned("batch")
    /\ \E k \in Uncached, m \in Uncached :
          /\ SubBatchOf(k) < SubBatchOf(m)
          /\ Failed(k) /\ results[uncached_indices[k]] = <<NEUTRAL, 0>>
          /\ ~Failed(m) /\ results[uncached_indices[m]] = <<POSITIVE, 95>>

\* C8: at most max_workers calls are in flight, a sub-batch has at most
\* batch_size members, and no call of a sub-batch is submitted before every
\* call of the sub-batches before it has completed.
C8_BoundedDispatch ==
    pc = "batch" =>
        /\ Cardinality(InFlight) <= max_workers
        /\ \A b \in 0..Len(tasks) :
              Cardinality({k \in 1..Len(tasks) : SubBatchOf(k) = b}) <= batch_size
        /\ \A k \in 1..Len(tasks), m \in 1..Len(tasks) :
              (SubBatchOf(k) < SubBatchOf(m) /\ tasks[m].pc # "unsubmitted")
                  => (tasks[k].pc = "done" /\ tasks[k].collected)

\* a call of the second sub-batch is in flight
C8_Witness ==
    /\ pc = "batch" /\ i > 0
    /\ \E k \in InFlight : SubBatchOf(k) = 1

\* C9: a call that holds an outcome derived from the model's response
\* returns that outcome.
C9_ModelOutcomeKept ==
    [][\A k \in 1..Len(tasks) :
          (/\ Len(tasks') = Len(tasks)
           /\ tasks[k].pc \in {"mcheck", "msnap", "evict", "insert"}
           /\ tasks'[k].pc = "done")
              => tasks'[k].result = Ok(tasks[k].pending)]_vars

\* the gateway cache insertion a thread is about to make while it evicts
EvictingFor(cache_key) ==
    \/ pc = "bstore" /\ cache_key = GatewayKey(texts[uncached_indices[i + 1]])
    \/ \E k \in 1..Len(tasks) :
          /\ Len(tasks') = Len(tasks)
          /\ tasks[k].pc = "evict" /\ tasks'[k].pc # "evict"
          /\ cache_key = GatewayKey(tasks[k].text)

\* C10: entries are removed only for an insertion that would exceed the
\* bound: the cache is at its bound and the key to insert is not in it; and
\* then exactly the remove_count oldest entries are removed.
C10_EvictsOldestTenthAtBound ==
    [][CacheLen(sentiment_cache') < CacheLen(sentiment_cache) =>
          /\ CacheLen(sentiment_cache) >= max_cache_size
          /\ sentiment_cache' =
                DelOldest(sentiment_cache, OldestKeys(sentiment_cache, remove_count)).cache
          /\ CacheLen(sentiment_cache') = CacheLen(sentiment_cache) - remove_count
          /\ \A t \in GatewayTexts :
                EvictingFor(GatewayKey(t)) => ~CacheHas(sentiment_cache, GatewayKey(t))]_vars

\* the number of places of s at which the word w occurs
Occurrences(s, w) ==
    Cardinality({n \in 1..(Len(s) - Len(w) + 1) : SubSeq(s, n, n + Len(w) - 1) = w})
RECURSIVE TotalOccurrences(_, _)
TotalOccurrences(s, words) ==
    IF words = {} THEN 0
    ELSE LET w == CHOOSE x \in words : TRUE
         IN  Occurrences(s, w) + TotalOccurrences(s, words \ {w})

\* C11: the fallback returns for every str: Positive 0.7 when the positive
\* keywords occur more often in the lower-cased text than the negative ones,
\* Negative 0.7 when the negative ones occur more often, Neutral 0.6 when
\* both occur equally often.
C11_FallbackByOccurrences ==
    (args[1] = "_fallback_sentiment" /\ ret.st # "none") =>
        /\ ret.st = "ok"
        /\ LET text_lower == Lower(args[2].s)
               pos == TotalOccurrences(text_lower, positive_words)
               neg == TotalOccurrences(text_lower, negative_words)
           IN  ret.val = IF pos > neg THEN <<POSITIVE, 70>>
                         ELSE IF neg > pos THEN <<NEGATIVE, 70>>
                         ELSE <<NEUTRAL, 60>>

\* C12: when the batch response cannot be parsed or the batch call fails,
\* every member of the batch gets exactly one single-text analyze_sentiment
\* call, and the batch has one outcome per member, in input order: the k-th
\* outcome is the outcome of the call for the k-th member.
C12_OneClassificationPerMember ==
    /\ (op = "gwbatch" /\ pc = "bindiv") =>
          /\ Len(tasks) = Len(uncached_indices)
          /\ \A k \in Uncached : tasks[k].text = texts[uncached_indices[k]]
    /\ (op = "gwbatch" /\ pc \in {"bstore", "binsert", "returned"} /\ tasks # <<>>) =>
          /\ Len(batch_results) = Len(uncached_indices)
          /\ \A k \in Uncached :
                /\ tasks[k].result.st = "ok"
                /\ batch_results[k] = tasks[k].result.val
                /\ Returned("gwbatch") => results[uncached_indices[k]] = batch_results[k]
C12_Witness ==
    /\ Returned("gwbatch")
    /\ Len(tasks) = 2
    /\ results[1] = <<POSITIVE, 95>>
    /\ results[2] # results[1]

\* C13: when every remote call comes back, every batch analysis completes:
\* batch_analyze_optimized returns a list with one entry per text, whatever
\* workers fail.
C13_BatchCompletes ==
    (op = "batch") ~> (Returned("batch") /\ Len(results) = Len(texts))
\* the same for a batch with at least one text not in the cache, whose
\* sub-batches all drain
C13_DispatchedBatchCompletes ==
    (pc = "batch") ~> (Returned("batch") /\ Len(results) = Len(texts)
                        /\ \A k \in Uncached : tasks[k].collected)

\* the values the cache holds under the key of position m of the new batch
CachedFor(m) ==
    { e.val : e \in { c \in Range(sentiment_cache.seq) :
                         /\ c.key.op = "sentiment"
                         /\ c.key.lang = languages'[m]
                         /\ c.key.text = optimized_texts'[m] } }
C14_Partition ==
    (op = "none" /\ op' = "batch") =>
        \A m \in 1..Len(texts') :
            LET dispatched == {k \in 1..Len(uncached_indices') : uncached_indices'[k] = m}
            IN  IF CachedFor(m) # {}
                THEN results'[m] \in CachedFor(m) /\ dispatched = {}
                ELSE results'[m] = None /\ Cardinality(dispatched) = 1
C14_CalledOnce ==
    (op = "batch" /\ op' = "batch") =>
        /\ Len(tasks') = Len(tasks)
        /\ uncached_indices' = uncached_indices
        /\ \A m \in 1..Len(texts) :
              (\A k \in Uncached : uncached_indices[k] # m) => results'[m] = results[m]
        /\ \A k \in 1..Len(tasks) :
              tasks[k].pc \notin {"unsubmitted", "queued"}
                  => tasks'[k].pc \notin {"unsubmitted", "queued"}
C14_Served ==
    op = "batch" =>
        /\ Len(tasks) = Len(uncached_indices)
        /\ \A k \in Uncached : tasks[k].text = optimized_texts[uncached_indices[k]]
        /\ Returned("batch") => \A k \in Uncached : tasks[k].result.st # "none"

\* C14: in a batch, a position whose key (language, normalised text) is in
\* the cache at partition time gets no gateway call and keeps the cached
\* value as its outcome; every other position gets one call of its own,
\* started once.
C14_CachedServedOthersDispatchedOnce ==
    /\ []C14_Served
    /\ [][C14_Partition /\ C14_CalledOnce]_vars
\* a batch of a cached and an uncached text has returned
C14_Witness ==
    /\ Returned("batch")
    /\ Len(texts) = 2 /\ Len(tasks) = 1
    /\ results[1] = <<NEGATIVE, 75>>
    /\ uncached_indices = <<2>> /\ tasks[1].result.st # "none"

TrimmedLength(t) ==
    LET ns == {n \in 1..Len(t) : ~IsSpace(t[n])}
    IN  IF ns = {} THEN 0
        ELSE (CHOOSE a \in ns : \A b \in ns : a >= b)
             - (CHOOSE a \in ns : \A b \in ns : a <= b) + 1
Blank(t) == \A n \in 1..Len(t) : IsSpace(t[n])

\* C16: for a text whose trimmed length is below 50, chunk_text returns
\* exactly one unit, with id 0 and the offsets 0 and len(text), in sentence
\* and in character mode; the unit's text is the text itself with nothing
\* but whitespace left out before and after it.
C16_ShortTextIsOneUnit ==
    (args[1] = "chunk_text" /\ ret.st # "none" /\ TrimmedLength(args[2].s) < 50) =>
        /\ ret.st = "ok"
        /\ Len(ret.val) = 1
        /\ ret.val[1].chunk_id = 0
        /\ ret.val[1].start_index = 0
        /\ ret.val[1].end_index = Len(args[2].s)
        /\ LET t == args[2].s
               u == ret.val[1].text
           IN  \E a \in 0..Len(t) - Len(u) :
                   /\ SubSeq(t, a + 1, a + Len(u)) = u
                   /\ Blank(SubSeq(t, 1, a))
                   /\ Blank(SubSeq(t, a + Len(u) + 1, Len(t)))
\* a text of 49 characters with two spaces in a row and a character outside
\* ASCII, between blanks, was chunked in character mode
C16_Witness ==
    /\ args[1] = "chunk_text" /\ ret.st = "ok"
    /\ ~args[3]
    /\ Len(args[2].s) = 51 /\ TrimmedLength(args[2].s) = 49
    /\ \E n \in 2..49 : IsSpace(args[2].s[n]) /\ IsSpace(args[2].s[n + 1])
    /\ \E n \in 1..51 : args[2].s[n] = "U+00E9"
    /\ Len(ret.val[1].text) = 49

\* C17: chunk_text returns at least one unit for every text, in sentence and
\* in character mode, and exactly one unit with an empty text for a text
\* that is empty or all whitespace.
C17_AtLeastOneUnit ==
    (args[1] = "chunk_text" /\ ret.st # "none") =>
        /\ ret.st = "ok"
        /\ Len(ret.val) >= 1
        /\ Blank(args[2].s) => Len(ret.val) = 1 /\ ret.val[1].text = <<>>

\* C18: for every text and language the output of the normalizer is at most
\* 1.2 times as long as its input.
C18_NoMaterialExpansion ==
    (args[1] = "_apply_tokenization_pipeline" /\ ret.st # "none") =>
        /\ ret.st = "ok"
        /\ 10 * Len(ret.val.s) <= 12 * Len(args[2].s)

\* C19: the dominant label of the insights prompt has the greatest of the
\* three counts; among the labels with the greatest count it is Positive
\* before Negative before Neutral.
C19_DominantIsFirstMaximum ==
    (args[1] = "_create_insights_prompt" /\ ret.st # "none") =>
        LET greatest == Max(args[2], Max(args[3], args[4]))
        IN  /\ ret.st = "ok"
            /\ ret.val = IF args[2] = greatest THEN "positive"
                         ELSE IF args[3] = greatest THEN "negative"
                         ELSE "neutral"
\* the negative and the neutral count tie above the positive count
C19_Witness ==
    /\ args[1] = "_create_insights_prompt"
    /\ args[3] = args[4] /\ args[2] < args[3]
    /\ ret.st = "ok" /\ ret.val = "negative"

\* C20: a translation whose source language is its target language sends
\* no chat request and returns the text as it came, with was_translated
\* false; so does translate_to_english for a text in English.
C20_Step ==
    (calls' = calls + 1 /\ args'[1] \in {"translate_text", "translate_to_english"}
        /\ args'[3] = args'[4]) =>
        /\ translation_chats' = translation_chats
        /\ ret'.st = "ok"
        /\ ret'.val.original_text = args'[2]
        /\ ret'.val.translated_text = args'[2]
        /\ ~ret'.val.was_translated
C20_SameLanguageNotTranslated == [][C20_Step]_vars
\* after a translation that asked the model, a text was passed from French
\* to French by a service with a client
C20_Witness ==
    /\ args[1] = "translate_text" /\ args[3] = "fr" /\ args[4] = "fr"
    /\ client /\ calls = 2 /\ translation_chats = 1
    /\ ret.st = "ok" /\ ~ret.val.was_translated

\* a request that passes every check of /api/analyze: JSON that parses, with
\* a "text" whose length is between 3 and 10000
Accepted(req) ==
    /\ req.is_json /\ req.valid /\ req.has_text
    /\ req.text.t # "int"
    /\ Len(req.text.s) >= 3 /\ Len(req.text.s) <= 10000

\* the response has one result entry, a job_id, and a summary with a single
\* 1, on the label of the result
OneResultSummarised(response) ==
    /\ response.status = 200
    /\ Len(response.results) = 1
    /\ response.job_id
    /\ response.summary.positive + response.summary.negative
         + response.summary.neutral = 1
    /\ LET label == response.results[1].sentiment
       IN  /\ label \in {"Positive", "Negative", "Neutral"}
           /\ (label = "Positive") = (response.summary.positive = 1)
           /\ (label = "Negative") = (response.summary.negative = 1)
           /\ (label = "Neutral") = (response.summary.neutral = 1)

\* C21: every accepted /api/analyze request is answered with status 200, one
\* result entry (text, sentiment, confidence, language), a job_id, and a
\* summary whose three counts sum to 1 with the 1 on the result's label.
C21_AcceptedRequestAnswered ==
    (args[1] = "analyze_text" /\ ret.st # "none" /\ Accepted(args[2])) =>
        /\ ret.st = "ok"
        /\ OneResultSummarised(ret.val)

\* C21 for the requests whose text is a str that UTF-8 can encode: those are
\* answered as the claim says, with the text of the request in the entry
C21_EncodableTextAnswered ==
    (/\ args[1] = "analyze_text" /\ ret.st # "none" /\ Accepted(args[2])
     /\ IsStr(args[2].text)
     /\ \A n \in 1..Len(args[2].text.s) : args[2].text.s[n] # "U+D800") =>
        /\ ret.st = "ok"
        /\ OneResultSummarised(ret.val)
        /\ ret.val.results[1].text = args[2].text
        /\ ret.val.results[1].confidence \in 50..95
        /\ ret.val.results[1].language \in {"English", "French"}
\* a text of 10000 characters was analysed as Negative
C21_Witness ==
    /\ args[1] = "analyze_text" /\ Accepted(args[2])
    /\ IsStr(args[2].text) /\ Len(args[2].text.s) = 10000
    /\ ret.st = "ok" /\ ret.val.status = 200
    /\ ret.val.results[1].sentiment = "Negative"
    /\ ret.val.summary.negative = 1

\* the first of the candidates that is JSON, <<>> when none is
FirstJson(candidates) ==
    LET valid == {k \in 1..Len(candidates) :
                    candidates[k] # <<>> /\ json_loads(candidates[k]).ok}
    IN  IF valid = {} THEN <<>>
        ELSE candidates[CHOOSE k \in valid : \A j \in valid : k <= j]

\* the candidates the parser takes from a response, in its order: the two
\* patterns on the content without fence markers, the two on the reasoning
\* field, the line scan
Extracted(content, thinking) ==
    json_patterns(Unfenced(content)) \o json_patterns(thinking)
        \o <<LineScan(Unfenced(content))>>

\* the model's answer to a batch of one text: an array of one object with
\* sentiment positive and confidence 0.9, between fence markers
FencedArray == <<"~~~json", "\n", "[", "{", "P", "}", "]", "\n", "~~~">>

C23_ChunkWithinMaxSize ==
    (args[1] = "chunk_text" /\ ret.st = "ok") =>
        \A k \in 1..Len(ret.val) :
            LET chunk == ret.val[k].text
            IN  (~args[3] \/ Len(_split_into_sentences(chunk)) > 1) =>
                    Len(chunk) <= args[4]

\* the sentences a chunk of sentence-preserving mode holds
Held(chunk) == Len(_split_into_sentences(chunk.text))
IsPrefix(p, t) == Len(p) <= Len(t) /\ SubSeq(t, 1, Len(p)) = p

\* the k-th chunk was closed because sentence j did not fit, and the chunk
\* after it begins as C24 says
ReseededAfter(units, sentences, k, j, overlap) ==
    IF overlap > 0 /\ Held(units[k]) > 1
    THEN /\ j > 1
         /\ IsPrefix(sentences[j - 1].text \o <<" ">> \o sentences[j].text,
                     units[k + 1].text)
    ELSE /\ IsPrefix(sentences[j].text, units[k + 1].text)
         /\ units[k + 1].start_index = sentences[j].start

\* C24: in sentence-preserving mode, after a chunk of more than one sentence
\* is closed with overlap > 0 the next chunk begins with the last sentence
\* of the closed chunk and then the sentence that did not fit; after a chunk
\* of one sentence, or with overlap 0, the next chunk begins with the
\* sentence that did not fit and repeats nothing.
C24_NextChunkReseeded ==
    (args[1] = "chunk_text" /\ ret.st = "ok" /\ args[3]) =>
        LET units == ret.val
            sentences == _split_into_sentences(_clean_text(args[2].s))
        IN  \A k \in 1..(Len(units) - 1) :
                \E j \in 1..Len(sentences) :
                    /\ sentences[j].start = units[k].end_index
                    /\ ReseededAfter(units, sentences, k, j, args[5])
\* with overlap > 0 a chunk of one sentence and a chunk of two were closed
\* and followed by another chunk
C24_Witness ==
    /\ args[1] = "chunk_text" /\ ret.st = "ok" /\ args[3] /\ args[5] > 0
    /\ \E k \in 1..(Len(ret.val) - 1) : Held(ret.val[k]) = 1
    /\ \E k \in 1..(Len(ret.val) - 1) :
          /\ Held(ret.val[k]) > 1
          /\ ret.val[k + 1].start_index < ret.val[k].end_index

\* C25: character-mode chunking terminates for every text and every
\* configuration with 0 <= overlap < chunk_size: every window starts after
\* the start of the window before it, and the last window ends at the end
\* of the text.
C25_CharacterModeTerminates ==
    (args[1] = "chunk_text" /\ ret.st # "none" /\ ~args[3]
     /\ 0 <= args[5] /\ args[5] < args[4]) =>
        /\ ret.st = "ok"
        /\ \A k \in 1..(Len(ret.val) - 1) :
              ret.val[k].start_index < ret.val[k + 1].start_index
        /\ ret.val # <<>> =>
              ret.val[Len(ret.val)].end_index
                  = IF Len(Strip(args[2].s)) < min_chunk_size
                    THEN Len(args[2].s) ELSE Len(_clean_text(args[2].s))

\* C25 for an overlap of at most SmallOverlap: there the windows advance and
\* the last one ends at the end of the text
C25_SmallOverlapTerminates ==
    (args[1] = "chunk_text" /\ ret.st # "none" /\ ~args[3]
     /\ args[5] <= SmallOverlap) => C25_CharacterModeTerminates

\* C26: batch_analyze_optimized never raises to its caller: for the empty
\* list it returns the empty list, and with a list of languages of another
\* length than texts it still returns one outcome per text.
C26_BatchNeverRaises ==
    op = "batch" =>
        /\ pc # "raised"
        /\ pc = "returned" =>
              /\ Len(results) = Len(texts)
              /\ \A m \in 1..Len(texts) : results[m] # None

\* C26 for a batch with at least one text and a language for every text:
\* it does not raise and returns one outcome per text
C26_PairedBatchReturns ==
    (op = "batch" /\ texts # <<>> /\ Len(languages) >= Len(texts)) =>
        /\ pc # "raised"
        /\ pc = "returned" =>
              /\ Len(results) = Len(texts)
              /\ \A m \in 1..Len(texts) : results[m] # None

\* C27: the normalizer's result cache never holds more than max_cache_size
\* entries, whatever the order in which the pool threads of a batch run
C27_NormalizerCacheBounded ==
    CacheLen(normalizer_cache) <= normalizer_max_cache_size

\* the same bound for a batch of at most one text, whose call runs alone
C27_SingleCallBounded ==
    Len(futures) <= 1 => CacheLen(normalizer_cache) <= normalizer_max_cache_size

\* C28: every result translate_to_english returns, one served from its
\* cache included, has as original_text the text passed in that call
C28_ResultOfThisText ==
    (args[1] = "translate_to_english" /\ ret.st = "ok")
        => ret.val.original_text = args[2]

\* the same for translate_text, whose key holds the whole text
C28_GatewayResultOfThisText ==
    (args[1] = "translate_text" /\ ret.st = "ok")
        => ret.val.original_text = args[2]

\* C30: when a translation call has returned a result that is not translated
\* because the remote call raised or brought no message, the next call for
\* the same text and languages sends a chat request again
C30_FailureNotServedFromCache ==
    [][ ( /\ args[1] \in {"translate_text", "translate_to_english"}
          /\ ret.st = "ok"
          /\ ~ret.val.was_translated
          /\ ret.val.error \in {"raised", "Translation failed"}
          /\ client
          /\ calls' = calls + 1
          /\ args' = args )
        => translation_chats' = translation_chats + 1 ]_vars

\* the answer a GET or DELETE of request k gets in this step, if it gets one
Answers(k, status) ==
    /\ k \in 1..Len(handlers)
    /\ handlers[k].route \in {"GET", "DELETE"}
    /\ handlers[k].pc # "done"
    /\ handlers'[k].pc = "done"
    /\ handlers'[k].status = status
EverStored(id) ==
    /\ id \in 1..Len(handlers)
    /\ handlers[id].route = "POST" /\ handlers[id].status = 200
DeleteSeen(id) ==
    \E d \in 1..Len(handlers) : handlers[d].route = "DELETE" /\ handlers[d].job_id = id

\* the answers that do not depend on how requests overlap: 404 for an id
\* never stored and for a request that arrived after a DELETE of its id was
\* answered 200, the stored result for a GET of a stored id no DELETE was
\* yet sent for, and the stored result with every 200 of a GET
SettledAnswers ==
    \A k \in 1..MaxRequests : \A status \in {200, 404, 500} :
        Answers(k, status) =>
            LET h == handlers'[k]
            IN  /\ ~EverStored(h.job_id) => status = 404
                /\ h.deleted => status = 404
                /\ (h.route = "GET" /\ EverStored(h.job_id) /\ ~DeleteSeen(h.job_id))
                      => status = 200
                /\ (h.route = "GET" /\ status = 200)
                      => h.body = handlers[h.job_id].body

\* C29: from the 200 of /api/analyze/batch on, every GET of the job id is
\* answered with the stored result until a DELETE of it is answered 200, and
\* from then on every GET or DELETE of it is answered 404, as is that of an
\* id never stored; so every answer is the stored result, the confirmation
\* of the one DELETE, or 404
C29_StoredUntilDeleted ==
    [][ /\ SettledAnswers
        /\ \A k \in 1..MaxRequests : ~Answers(k, 500) ]_vars

\* the same without the requests that overlap a DELETE of their job id
C29_SettledRequests == [][SettledAnswers]_vars
====
